---- MODULE Spec2Model ----
(***************************************************************************)
(* Task-Management-Tool: the natural-language task manager of              *)
(* src/Task_management.py (the command-line loop interactive_query and its *)
(* handlers) and src/bot.py (the Telegram message handler).                *)
(*                                                                         *)
(* Text is modelled as Python handles it: a str is a sequence of           *)
(* one-character strings, and lower(), strip(), split(), the `in` test,    *)
(* startswith() and the regular expressions of the source are operators    *)
(* over such sequences.  None and the empty str are both the empty         *)
(* sequence where the source only tests truthiness.                        *)
(***************************************************************************)
EXTENDS Integers, Sequences, FiniteSets, TLC

(***************************************************************************)
(* Bounds of the model.                                                    *)
(***************************************************************************)
\* The store holds at most MaxStore rows: inserts are refused by the guard beyond it.
MaxStore == 2
\* The store assigns ids 1..MaxId; no insert happens once they are used up.
MaxId == 3

(***************************************************************************)
(* Python str primitives.                                                  *)
(***************************************************************************)
UpperChars == <<"A","B","C","D","E","F","G","H","I","J","K","L","M","N","O","P","Q","R","S","T","U","V","W","X","Y","Z">>
LowerChars == <<"a","b","c","d","e","f","g","h","i","j","k","l","m","n","o","p","q","r","s","t","u","v","w","x","y","z">>

\* the lower-case letter of each upper-case letter, and the converse
ToLower == [ c \in { UpperChars[i] : i \in 1..Len(UpperChars) } |->
               LowerChars[CHOOSE i \in 1..Len(UpperChars) : UpperChars[i] = c] ]
ToUpper == [ c \in { LowerChars[i] : i \in 1..Len(LowerChars) } |->
               UpperChars[CHOOSE i \in 1..Len(LowerChars) : LowerChars[i] = c] ]

\* str.lower() on one character
LowerChar(c) == IF c \in DOMAIN ToLower THEN ToLower[c] ELSE c

\* str.upper() on one character
UpperChar(c) == IF c \in DOMAIN ToUpper THEN ToUpper[c] ELSE c

\* str.lower()
Lower(s) == [i \in 1..Len(s) |-> LowerChar(s[i])]

\* str.capitalize(): first character upper-cased, the rest lower-cased
Capitalize(s) ==
    IF s = <<>> THEN s
    ELSE <<UpperChar(s[1])>> \o [i \in 1..(Len(s) - 1) |-> LowerChar(s[i + 1])]

\* the whitespace of the modelled alphabet (\s in the regular expressions)
IsSpace(c) == c = " "

IsDigit(c) == c \in {"0", "1", "2", "3", "4", "5", "6", "7", "8", "9"}

\* s[i:] in Python, 1-based here
From(s, i) == SubSeq(s, i, Len(s))

\* p occurs in s at position i
MatchAt(s, p, i) == i + Len(p) - 1 <= Len(s) /\ SubSeq(s, i, i + Len(p) - 1) = p

\* `p in s`
Contains(s, p) == \E i \in 1..(Len(s) - Len(p) + 1) : MatchAt(s, p, i)

\* s.find(p) + 1, for p in s
Find(s, p) == CHOOSE i \in 1..(Len(s) - Len(p) + 1) :
                  /\ MatchAt(s, p, i)
                  /\ \A j \in 1..(i - 1) : ~MatchAt(s, p, j)

\* s.startswith(p)
StartsWith(s, p) == MatchAt(s, p, 1)

\* s.endswith(p); also the regular expression `p$` searched in s
EndsWith(s, p) == Len(p) <= Len(s) /\ SubSeq(s, Len(s) - Len(p) + 1, Len(s)) = p

\* the positions of the characters of s that are no whitespace
NonSpaces(s) == { i \in 1..Len(s) : ~IsSpace(s[i]) }

\* the least and the greatest of a non-empty set of positions
First(positions) == CHOOSE i \in positions : \A j \in positions : i <= j
Last(positions) == CHOOSE i \in positions : \A j \in positions : j <= i

\* str.lstrip(), str.rstrip()
LStrip(s) == IF NonSpaces(s) = {} THEN <<>> ELSE From(s, First(NonSpaces(s)))
RStrip(s) == IF NonSpaces(s) = {} THEN <<>> ELSE SubSeq(s, 1, Last(NonSpaces(s)))

\* str.strip()
Strip(s) == LStrip(RStrip(s))

\* the length of the leading run of non-space characters of s
WordLen(s) ==
    LET spaces == { i \in 1..Len(s) : IsSpace(s[i]) }
    IN  IF spaces = {} THEN Len(s) ELSE First(spaces) - 1

\* str.split(): the whitespace-delimited words of s, in order
RECURSIVE Split(_)
Split(s) ==
    LET t == LStrip(s)
        n == WordLen(t)
    IN  IF t = <<>> THEN <<>>
        ELSE <<SubSeq(t, 1, n)>> \o Split(From(t, n + 1))

\* s.split(p)[0]
BeforeFirst(s, p) == IF Contains(s, p) THEN SubSeq(s, 1, Find(s, p) - 1) ELSE s

\* s.split(p, 1)[1], for p in s
AfterFirst(s, p) == From(s, Find(s, p) + Len(p))

\* s.replace(p, '', 1)
RemoveFirst(s, p) ==
    IF Contains(s, p) /\ p # <<>>
    THEN SubSeq(s, 1, Find(s, p) - 1) \o From(s, Find(s, p) + Len(p))
    ELSE s

\* ' '.join(words)
RECURSIVE Join(_)
Join(words) ==
    IF words = <<>> THEN <<>>
    ELSE IF Len(words) = 1 THEN words[1]
    ELSE words[1] \o <<" ">> \o Join(Tail(words))

\* the length of the leading run of whitespace of s
SpaceRun(s) == IF NonSpaces(s) = {} THEN Len(s) ELSE First(NonSpaces(s)) - 1

\* re.sub(p + r"\s+", "", s): every occurrence of p followed by whitespace, with
\* that whitespace, is removed, scanning from the left
RECURSIVE SubPhraseSpace(_, _)
SubPhraseSpace(s, p) ==
    LET hits == { i \in 1..Len(s) :
                    MatchAt(s, p, i) /\ SpaceRun(From(s, i + Len(p))) > 0 }
    IN  IF hits = {} THEN s
        ELSE LET i == First(hits)
                 rest == From(s, i + Len(p))
             IN  SubSeq(s, 1, i - 1) \o SubPhraseSpace(From(rest, SpaceRun(rest) + 1), p)

\* re.sub(p + "$", "", s): p is removed where it ends s
SubPhraseEnd(s, p) == IF EndsWith(s, p) THEN SubSeq(s, 1, Len(s) - Len(p)) ELSE s

\* int(s) for a str of decimal digits
RECURSIVE DigitsValue(_)
DigitsValue(s) ==
    IF s = <<>> THEN 0
    ELSE 10 * DigitsValue(SubSeq(s, 1, Len(s) - 1))
         + (CHOOSE d \in 0..9 : <<"0","1","2","3","4","5","6","7","8","9">>[d + 1] = s[Len(s)])

\* s is a non-empty str of decimal digits (str.isdigit(); the strs int() accepts
\* among the modelled inputs)
IsDigits(s) == s # <<>> /\ \A i \in 1..Len(s) : IsDigit(s[i])


(***************************************************************************)
(* The phrase tables of the source.                                        *)
(***************************************************************************)
\* TaskParser.task_verbs
task_verbs == <<
    <<"d","o">>, <<"c","o","m","p","l","e","t","e">>, <<"f","i","n","i","s","h">>, <<"s","u","b","m","i","t">>, <<"w","o","r","k">>,
    <<"p","r","e","p","a","r","e">>, <<"r","e","v","i","e","w">>, <<"a","d","d">>, <<"c","r","e","a","t","e">> >>

\* TaskParser.task_nouns
task_nouns == <<
    <<"t","a","s","k">>, <<"a","s","s","i","g","n","m","e","n","t">>, <<"p","r","o","j","e","c","t">>, <<"h","o","m","e","w","o","r","k">>,
    <<"w","o","r","k">>, <<"d","e","a","d","l","i","n","e">>, <<"d","u","e">>, <<"c","h","a","p","t","e","r">> >>

\* TaskParser.task_indicators, in the order of the list
task_indicators == <<
    <<"i"," ","g","o","t","t","a">>, <<"i"," ","h","a","v","e"," ","t","o">>, <<"i"," ","n","e","e","d"," ","t","o">>, <<"i"," ","m","u","s","t">>, <<"i"," ","s","h","o","u","l","d">>,
    <<"i"," ","o","u","g","h","t"," ","t","o">>, <<"i"," ","w","i","l","l">>, <<"i"," ","w","a","n","n","a">>, <<"i"," ","p","l","a","n"," ","t","o">>, <<"i"," ","i","n","t","e","n","d"," ","t","o">>,
    <<"i","'","m"," ","g","o","i","n","g"," ","t","o">>, <<"i","'","l","l">>, <<"i","'","d"," ","l","i","k","e"," ","t","o">>,
    <<"g","o","t","t","a">>, <<"n","e","e","d"," ","t","o">>, <<"h","a","v","e"," ","t","o">>, <<"s","h","o","u","l","d">>, <<"m","u","s","t">>, <<"o","u","g","h","t"," ","t","o">>,
    <<"w","i","l","l">>, <<"w","a","n","n","a">>, <<"p","l","a","n"," ","t","o">>, <<"i","n","t","e","n","d"," ","t","o">>, <<"g","o","n","n","a">>, <<"n","e","e","d","a">>,
    <<"h","a","v","e","t","a">>, <<"s","h","o","u","l","d","a">>, <<"o","u","g","h","t","a">>, <<"w","i","l","l"," ","d","o">>,
    <<"t","o"," ","d","o">>, <<"t","o"," ","c","o","m","p","l","e","t","e">> >>

\* completion_patterns of is_completion_indicator: the phrase, and whether the
\* regular expression anchors it at the end of the text ($)
completion_patterns == <<
    [text |-> <<"i"," ","h","a","v","e"," ","c","o","m","p","l","e","t","e","d">>, atEnd |-> FALSE],
    [text |-> <<"i","'","v","e"," ","c","o","m","p","l","e","t","e","d">>, atEnd |-> FALSE],
    [text |-> <<"i"," ","h","a","v","e"," ","d","o","n","e">>, atEnd |-> FALSE],
    [text |-> <<"i","'","v","e"," ","d","o","n","e">>, atEnd |-> FALSE],
    [text |-> <<"i"," ","f","i","n","i","s","h","e","d">>, atEnd |-> FALSE],
    [text |-> <<"i","'","v","e"," ","f","i","n","i","s","h","e","d">>, atEnd |-> FALSE],
    [text |-> <<"i"," ","c","o","m","p","l","e","t","e","d">>, atEnd |-> FALSE],
    [text |-> <<"i","'","v","e"," ","a","c","c","o","m","p","l","i","s","h","e","d">>, atEnd |-> FALSE],
    [text |-> <<"i"," ","a","c","c","o","m","p","l","i","s","h","e","d">>, atEnd |-> FALSE],
    [text |-> <<"i"," ","g","o","t"," ","i","t"," ","d","o","n","e">>, atEnd |-> FALSE],
    [text |-> <<"i","'","v","e"," ","g","o","t"," ","i","t"," ","d","o","n","e">>, atEnd |-> FALSE],
    [text |-> <<"i"," ","m","a","n","a","g","e","d"," ","t","o">>, atEnd |-> FALSE],
    [text |-> <<"i","'","v","e"," ","m","a","n","a","g","e","d"," ","t","o">>, atEnd |-> FALSE],
    [text |-> <<"i"," ","d","i","d">>, atEnd |-> FALSE],
    [text |-> <<"i","'","v","e"," ","h","a","n","d","l","e","d">>, atEnd |-> FALSE],
    [text |-> <<"i"," ","h","a","n","d","l","e","d">>, atEnd |-> FALSE],
    [text |-> <<"i"," ","w","r","a","p","p","e","d"," ","u","p">>, atEnd |-> FALSE],
    [text |-> <<"i","'","v","e"," ","w","r","a","p","p","e","d"," ","u","p">>, atEnd |-> FALSE],
    [text |-> <<"i","s"," ","d","o","n","e">>, atEnd |-> TRUE],
    [text |-> <<"i","s"," ","c","o","m","p","l","e","t","e","d">>, atEnd |-> TRUE],
    [text |-> <<"i","s"," ","f","i","n","i","s","h","e","d">>, atEnd |-> TRUE],
    [text |-> <<"d","o","n","e">>, atEnd |-> TRUE],
    [text |-> <<"c","o","m","p","l","e","t","e","d">>, atEnd |-> TRUE] >>

\* the patterns handle_task_completion substitutes away, in order: a phrase
\* followed by \s+ (atEnd FALSE), or a phrase anchored at the end (atEnd TRUE)
removal_patterns == <<
    [text |-> <<"i"," ","h","a","v","e"," ","c","o","m","p","l","e","t","e","d">>, atEnd |-> FALSE],
    [text |-> <<"i","'","v","e"," ","c","o","m","p","l","e","t","e","d">>, atEnd |-> FALSE],
    [text |-> <<"i"," ","h","a","v","e"," ","d","o","n","e">>, atEnd |-> FALSE],
    [text |-> <<"i","'","v","e"," ","d","o","n","e">>, atEnd |-> FALSE],
    [text |-> <<"i"," ","f","i","n","i","s","h","e","d">>, atEnd |-> FALSE],
    [text |-> <<"i","'","v","e"," ","f","i","n","i","s","h","e","d">>, atEnd |-> FALSE],
    [text |-> <<"i"," ","c","o","m","p","l","e","t","e","d">>, atEnd |-> FALSE],
    [text |-> <<"i","'","v","e"," ","a","c","c","o","m","p","l","i","s","h","e","d">>, atEnd |-> FALSE],
    [text |-> <<"i"," ","a","c","c","o","m","p","l","i","s","h","e","d">>, atEnd |-> FALSE],
    [text |-> <<"i"," ","g","o","t"," ","i","t"," ","d","o","n","e">>, atEnd |-> FALSE],
    [text |-> <<"i","'","v","e"," ","g","o","t"," ","i","t"," ","d","o","n","e">>, atEnd |-> FALSE],
    [text |-> <<"i"," ","m","a","n","a","g","e","d"," ","t","o">>, atEnd |-> FALSE],
    [text |-> <<"i","'","v","e"," ","m","a","n","a","g","e","d"," ","t","o">>, atEnd |-> FALSE],
    [text |-> <<"i"," ","d","i","d">>, atEnd |-> FALSE],
    [text |-> <<"i","'","v","e"," ","h","a","n","d","l","e","d">>, atEnd |-> FALSE],
    [text |-> <<"i"," ","h","a","n","d","l","e","d">>, atEnd |-> FALSE],
    [text |-> <<"i"," ","w","r","a","p","p","e","d"," ","u","p">>, atEnd |-> FALSE],
    [text |-> <<"i","'","v","e"," ","w","r","a","p","p","e","d"," ","u","p">>, atEnd |-> FALSE],
    [text |-> <<"i","s"," ","d","o","n","e">>, atEnd |-> TRUE],
    [text |-> <<"i","s"," ","c","o","m","p","l","e","t","e","d">>, atEnd |-> TRUE],
    [text |-> <<"i","s"," ","f","i","n","i","s","h","e","d">>, atEnd |-> TRUE],
    [text |-> <<"d","o","n","e">>, atEnd |-> TRUE],
    [text |-> <<"c","o","m","p","l","e","t","e","d">>, atEnd |-> TRUE] >>

\* common_words of handle_task_completion
common_words == { <<"t","h","e">>, <<"a">>, <<"a","n">>, <<"t","h","i","s">>, <<"t","h","a","t">>, <<"t","h","e","s","e">>, <<"t","h","o","s","e">> }

\* remove_words of _extract_task_name, in order
remove_words == <<
    <<"a","l","s","o">>, <<"e","v","e","n">>, <<"a","s"," ","w","e","l","l">>, <<"a","d","d","i","t","i","o","n","a","l","l","y">>, <<"m","o","r","e","o","v","e","r">>,
    <<"f","u","r","t","h","e","r","m","o","r","e">>, <<"b","e","s","i","d","e","s">>, <<"t","o","o">> >>

\* the deadline words _extract_task_name cuts the name at, in order
deadline_words == << <<"b","y">>, <<"d","u","e">>, <<"u","n","t","i","l">>, <<"b","e","f","o","r","e">> >>

\* viewing_indicators of handle_common_queries
viewing_indicators == << <<"s","h","o","w">>, <<"w","h","a","t">>, <<"l","i","s","t">>, <<"v","i","e","w">>, <<"d","i","s","p","l","a","y">>, <<"g","e","t">> >>

\* TaskParser.temporal_relations, in the order of the dict
temporal_relations == <<
    [rel |-> "before", patterns |-> <<
        <<"b","e","f","o","r","e">>, <<"b","y">>, <<"p","r","i","o","r"," ","t","o">>, <<"e","a","r","l","i","e","r"," ","t","h","a","n">>, <<"u","p"," ","u","n","t","i","l">>,
        <<"b","e","f","o","r","e"," ","t","h","e"," ","e","n","d"," ","o","f">>, <<"b","e","f","o","r","e"," ","t","h","e"," ","d","e","a","d","l","i","n","e">>, <<"n","o","t"," ","l","a","t","e","r"," ","t","h","a","n">>,
        <<"b","e","f","o","r","e"," ","t","h","e"," ","s","p","e","c","i","f","i","e","d"," ","d","a","t","e">>, <<"t","i","l","l">>, <<"u","n","t","i","l">>, <<"n","o"," ","l","a","t","e","r"," ","t","h","a","n">> >>],
    [rel |-> "inclusive", patterns |-> << <<"o","n">>, <<"i","n","c","l","u","d","i","n","g">> >>],
    [rel |-> "after", patterns |-> <<
        <<"a","f","t","e","r">>, <<"f","o","l","l","o","w","i","n","g">>, <<"p","o","s","t">>, <<"f","r","o","m">>, <<"b","e","y","o","n","d">>,
        <<"l","a","t","e","r"," ","t","h","a","n">>, <<"a","f","t","e","r"," ","t","h","e"," ","d","e","a","d","l","i","n","e">>, <<"s","u","b","s","e","q","u","e","n","t"," ","t","o">>,
        <<"o","n","w","a","r","d","s">>, <<"o","n","w","a","r","d">>, <<"s","t","a","r","t","i","n","g"," ","f","r","o","m">> >>],
    [rel |-> "flexible", patterns |-> <<
        <<"a","r","o","u","n","d">>, <<"a","b","o","u","t">>, <<"w","i","t","h","i","n"," ","t","h","e"," ","w","e","e","k">>, <<"w","i","t","h","i","n"," ","t","h","e"," ","m","o","n","t","h">>,
        <<"s","o","m","e","t","i","m","e">>, <<"w","h","e","n","e","v","e","r">>, <<"a","t"," ","t","h","e"," ","e","a","r","l","i","e","s","t">>, <<"a","s"," ","s","o","o","n"," ","a","s">>,
        <<"i","n"," ","t","h","e"," ","n","e","a","r"," ","f","u","t","u","r","e">>, <<"a","p","p","r","o","x","i","m","a","t","e","l","y">>, <<"r","o","u","g","h","l","y">> >>] >>

\* `any(p in text for p in table)`
AnyIn(text, table) == \E k \in 1..Len(table) : Contains(text, table[k])


(***************************************************************************)
(* datetime.  A datetime is [ord, hour, minute, second]: ord counts the     *)
(* days of the calendar window 2026-2027 (two years of 365 days), ord 1    *)
(* being Thursday 2026-01-01.  Microseconds are not modelled: every        *)
(* datetime the program stores or compares goes through strftime with      *)
(* "%Y-%m-%dT%H:%M:%S", which drops them.                                   *)
(***************************************************************************)
\* "no datetime": None where the source returns Optional[datetime]
NoDate == [none |-> TRUE]

\* calendar.monthrange(year, month)[1] for the years of the window
DaysInMonth == <<31, 28, 31, 30, 31, 30, 31, 31, 30, 31, 30, 31>>

\* the days of the year before month m
RECURSIVE DaysBeforeMonth(_)
DaysBeforeMonth(m) == IF m <= 1 THEN 0 ELSE DaysBeforeMonth(m - 1) + DaysInMonth[m - 1]

\* datetime.year, .month, .day
YearOf(ord) == 2026 + ((ord - 1) \div 365)
DayOfYear(ord) == ((ord - 1) % 365) + 1
MonthOf(ord) == CHOOSE m \in 1..12 :
                    /\ DaysBeforeMonth(m) < DayOfYear(ord)
                    /\ DayOfYear(ord) <= DaysBeforeMonth(m) + DaysInMonth[m]
DayOf(ord) == DayOfYear(ord) - DaysBeforeMonth(MonthOf(ord))

\* datetime(year, month, day, ...).  toordinal, relative to the window
OrdOf(year, month, day) == (year - 2026) * 365 + DaysBeforeMonth(month) + day

\* datetime.weekday(): Monday is 0
Weekday(dt) == (dt.ord + 2) % 7

SecondsOfDay(dt) == dt.hour * 3600 + dt.minute * 60 + dt.second

\* dt + timedelta(days, hours, minutes, seconds), the carry into the date included
AddDelta(dt, days, hours, minutes, seconds) ==
    LET total == SecondsOfDay(dt) + hours * 3600 + minutes * 60 + seconds
        sod   == total % 86400
    IN  [ ord    |-> dt.ord + days + (total \div 86400),
          hour   |-> sod \div 3600,
          minute |-> (sod % 3600) \div 60,
          second |-> sod % 60 ]

\* dt.replace(hour=23, minute=59, second=59[, microsecond=0])
EndOfDay(dt) == [ord |-> dt.ord, hour |-> 23, minute |-> 59, second |-> 59]

\* dt.replace(hour=0, minute=0, second=0)
StartOfDay(dt) == [ord |-> dt.ord, hour |-> 0, minute |-> 0, second |-> 0]

\* dt.strftime("%Y-%m-%dT%H:%M:%S"): the fields of the ISO string, in its order
Strftime(dt) == << YearOf(dt.ord), MonthOf(dt.ord), DayOf(dt.ord),
                   dt.hour, dt.minute, dt.second >>

\* datetime.fromisoformat of such a string
FromIso(iso) == [ ord    |-> OrdOf(iso[1], iso[2], iso[3]),
                  hour   |-> iso[4], minute |-> iso[5], second |-> iso[6] ]

\* the order of two ISO strings (and of the timestamps they denote): a <= b
RECURSIVE IsoLeqFrom(_, _, _)
IsoLeqFrom(a, b, k) ==
    IF k > Len(a) THEN TRUE
    ELSE IF a[k] < b[k] THEN TRUE
    ELSE IF a[k] > b[k] THEN FALSE
    ELSE IsoLeqFrom(a, b, k + 1)

IsoLeq(a, b) == IsoLeqFrom(a, b, 1)

\* The clock readings datetime.now() yields in the modelled runs:
\* Thursday 2026-11-05 10:30:00.
Nows == { [ord |-> 309, hour |-> 10, minute |-> 30, second |-> 0] }

\* What the generic calendar parser (parsedatetime) may return for a phrase it
\* parses: Saturday 2026-11-07 with no time of day, Monday 2026-11-09 14:30:00.
CalendarResults == { [ord |-> 311, hour |-> 0, minute |-> 0, second |-> 0],
                     [ord |-> 313, hour |-> 14, minute |-> 30, second |-> 0] }

\* TaskParser._handle_relative_time
_handle_relative_time(pattern_name, today) ==
    CASE pattern_name = "today" -> EndOfDay(today)
      [] pattern_name = "tomorrow" -> EndOfDay(AddDelta(today, 1, 0, 0, 0))
      [] pattern_name \in {"this_week", "next_week"} ->
            LET start == AddDelta(today, 0 - Weekday(today), 0, 0, 0)
                from  == IF pattern_name = "next_week"
                         THEN AddDelta(start, 7, 0, 0, 0) ELSE start
            IN  AddDelta(from, 6, 23, 59, 59)
      [] pattern_name \in {"this_month", "next_month"} ->
            LET tm    == MonthOf(today.ord)
                ty    == YearOf(today.ord)
                month == IF pattern_name = "next_month" THEN (tm % 12) + 1 ELSE tm
                year  == IF pattern_name = "next_month" THEN ty + (tm \div 12) ELSE ty
            IN  [ ord |-> OrdOf(year, month, DaysInMonth[month]),
                  hour |-> 23, minute |-> 59, second |-> 59 ]
      [] pattern_name = "weekend" ->
            LET d0         == 5 - Weekday(today)
                days_ahead == IF d0 < 0 THEN d0 + 7 ELSE d0
                saturday   == AddDelta(today, days_ahead, 0, 0, 0)
                sunday     == AddDelta(saturday, 1, 0, 0, 0)
            IN  EndOfDay(sunday)
      [] OTHER -> NoDate

\* the weekday numbers of _handle_specific_day
DayNumber(day) ==
    CASE day = "monday" -> 0 [] day = "tuesday" -> 1 [] day = "wednesday" -> 2
      [] day = "thursday" -> 3 [] day = "friday" -> 4 [] day = "saturday" -> 5
      [] day = "sunday" -> 6 [] OTHER -> -1

\* _handle_specific_day without `if days_until < 0: days_until += 7`: a weekday
\* earlier in the week than today resolves to a date already past
HandleSpecificDayNoWrap(day, today) ==
    IF DayNumber(day) = -1 THEN NoDate
    ELSE EndOfDay(AddDelta(today, DayNumber(day) - Weekday(today), 0, 0, 0))

\* TaskParser._handle_specific_day
_handle_specific_day(day, today) ==
    IF DayNumber(day) = -1 THEN NoDate
    ELSE LET d0         == DayNumber(day) - Weekday(today)
             days_until == IF d0 < 0 THEN d0 + 7 ELSE d0
         IN  EndOfDay(AddDelta(today, days_until, 0, 0, 0))

\* "If no specific time was given, set it to end of day" of parse_deadline
NormalizeParsed(parsed_date) ==
    IF parsed_date.hour = 0 /\ parsed_date.minute = 0
    THEN EndOfDay(parsed_date)
    ELSE parsed_date

\* TaskParser.parse_deadline, given what the date parsers (spaCy's NER and
\* parsedatetime) make of the phrase: parsed is NoDate when they fail.  'today'
\* and 'tonight' are decided by the code before they are asked.
ParseDeadlineFrom(deadline_str, today, parsed) ==
    IF Contains(Lower(deadline_str), <<"t","o","d","a","y">>) \/ Contains(Lower(deadline_str), <<"t","o","n","i","g","h","t">>)
    THEN EndOfDay(today)
    ELSE IF parsed = NoDate THEN NoDate
    ELSE NormalizeParsed(parsed)

\* TaskParser.parse_deadline: the set of its possible results
parse_deadline(deadline_str, today) ==
    { ParseDeadlineFrom(deadline_str, today, parsed) : parsed \in { NoDate } \cup CalendarResults }


(***************************************************************************)
(* TaskParser: the extraction of a task descriptor from a creation text.   *)
(***************************************************************************)
\* The positions where one of the keywords (compared ignoring case) is followed
\* by whitespace and then by at least one more character: where the regular
\* expressions `(due|by)\s+(.+)` and `(by|due|until)\s+(.+?)...` can match.
KeywordHits(text, keywords) ==
    { i \in 1..Len(text) :
        \E k \in 1..Len(keywords) :
            LET after == From(text, i + Len(keywords[k]))
            IN  /\ MatchAt(Lower(text), keywords[k], i)
                /\ SpaceRun(after) > 0
                /\ SpaceRun(after) < Len(after) }

\* The text after the keyword and its whitespace at the leftmost such position;
\* the empty str when the expression matches nowhere.
RestAfterKeyword(text, keywords) ==
    LET hits == KeywordHits(text, keywords)
    IN  IF hits = {} THEN <<>>
        ELSE LET i     == CHOOSE h \in hits : \A g \in hits : h <= g
                 k     == CHOOSE j \in 1..Len(keywords) :
                              /\ MatchAt(Lower(text), keywords[j], i)
                              /\ \A l \in 1..(j - 1) : ~MatchAt(Lower(text), keywords[l], i)
                 after == From(text, i + Len(keywords[k]))
             IN  From(after, SpaceRun(after) + 1)

\* group(2) of `(by|due|until)\s+(.+?)(\s+with|\s*$)`: the rest up to the first
\* whitespace followed by "with", or up to the end without its trailing whitespace
LazyGroupBeforeWith(rest) ==
    LET cuts == { j \in 2..Len(rest) :
                    /\ IsSpace(rest[j])
                    /\ MatchAt(Lower(rest), <<"w","i","t","h">>, j + SpaceRun(From(rest, j))) }
    IN  IF cuts = {} THEN RStrip(rest)
        ELSE SubSeq(rest, 1, (CHOOSE c \in cuts : \A d \in cuts : c <= d) - 1)

\* the loop over deadline_words in _extract_task_name, from the k-th word on
RECURSIVE CutAtDeadlineWords(_, _)
CutAtDeadlineWords(potential_name, k) ==
    IF k > Len(deadline_words) THEN potential_name
    ELSE IF Contains(potential_name, deadline_words[k])
         THEN CutAtDeadlineWords(Strip(BeforeFirst(potential_name, deadline_words[k])), k + 1)
         ELSE CutAtDeadlineWords(potential_name, k + 1)

\* the loop over remove_words, from the k-th word on; the test is made on the
\* lower-cased name, the replacement on the name
RECURSIVE StripRemoveWords(_, _)
StripRemoveWords(name, k) ==
    IF k > Len(remove_words) THEN name
    ELSE IF StartsWith(Lower(name), remove_words[k])
         THEN StripRemoveWords(Strip(RemoveFirst(name, remove_words[k])), k + 1)
         ELSE StripRemoveWords(name, k + 1)

\* the name the k-th indicator yields: the text after its first occurrence, cut
\* at the deadline words, without a leading filler word
PotentialName(text, k) ==
    StripRemoveWords(
        CutAtDeadlineWords(Strip(AfterFirst(Lower(text), task_indicators[k])), 1), 1)

\* the loop over task_indicators in _extract_task_name, from the k-th on: the
\* first indicator present in the text that leaves a non-empty name decides
RECURSIVE NameFromIndicators(_, _)
NameFromIndicators(text, k) ==
    IF k > Len(task_indicators) THEN <<>>
    ELSE IF Contains(Lower(text), task_indicators[k]) /\ PotentialName(text, k) # <<>>
         THEN Capitalize(PotentialName(text, k))
         ELSE NameFromIndicators(text, k + 1)

\* The subtree texts spaCy's dependency parse may give for a direct or
\* prepositional object of the lower-cased text: any run of consecutive tokens.
SubtreeTexts(text) ==
    LET toks == Split(Lower(text))
    IN  { Join(SubSeq(toks, i, j)) : i \in 1..Len(toks), j \in 1..Len(toks) } \ { <<>> }

\* TaskParser._extract_task_name: the set of its possible results (the empty
\* str stands for None)
_extract_task_name(text) ==
    IF NameFromIndicators(text, 1) # <<>>
    THEN { NameFromIndicators(text, 1) }
    ELSE { <<>> } \cup { Capitalize(StripRemoveWords(t, 1)) : t \in SubtreeTexts(text) }

\* TaskParser._extract_deadline: the set of its possible results.  The token
\* loop needs a token by/due/until and succeeds or not as the dependency parse
\* and the date parsers decide; the regular expression is the fallback.
_extract_deadline(text, today) ==
    LET toks      == Split(Lower(text))
        hasToken  == \E i \in 1..Len(toks) : toks[i] \in { <<"b","y">>, <<"d","u","e">>, <<"u","n","t","i","l">> }
        fromToken == IF hasToken
                     THEN { NormalizeParsed(d) : d \in CalendarResults }
                          \cup IF Contains(Lower(text), <<"t","o","d","a","y">>)
                                  \/ Contains(Lower(text), <<"t","o","n","i","g","h","t">>)
                               THEN { EndOfDay(today) } ELSE {}
                     ELSE {}
        rest      == RestAfterKeyword(text, << <<"d","u","e">>, <<"b","y">> >>)
        fromRegex == IF rest # <<>> THEN parse_deadline(rest, today) ELSE { NoDate }
    IN  fromToken \cup fromRegex

\* the digits of the leftmost match of `difficulty\s+(\d+)`; empty without one
DifficultyDigits(text) ==
    LET hits == { i \in 1..Len(text) :
                    LET after == From(text, i + Len(<<"d","i","f","f","i","c","u","l","t","y">>))
                    IN  /\ MatchAt(Lower(text), <<"d","i","f","f","i","c","u","l","t","y">>, i)
                        /\ SpaceRun(after) > 0
                        /\ SpaceRun(after) < Len(after)
                        /\ IsDigit(after[SpaceRun(after) + 1]) }
    IN  IF hits = {} THEN <<>>
        ELSE LET i      == CHOOSE h \in hits : \A g \in hits : h <= g
                 after  == From(text, i + Len(<<"d","i","f","f","i","c","u","l","t","y">>))
                 digits == From(after, SpaceRun(after) + 1)
                 n      == CHOOSE m \in 1..Len(digits) :
                               /\ \A j \in 1..m : IsDigit(digits[j])
                               /\ (m = Len(digits) \/ ~IsDigit(digits[m + 1]))
             IN  SubSeq(digits, 1, n)

\* the three levels with Medium reaching down to 2 and up to 4
DifficultyLevelWideMedium(difficulty_level) ==
    IF difficulty_level < 2 THEN "Easy"
    ELSE IF difficulty_level <= 4 THEN "Medium"
    ELSE "Hard"

\* the three levels a difficulty number maps to (also in edit_task)
DifficultyLevel(difficulty_level) ==
    IF difficulty_level <= 2 THEN "Easy"
    ELSE IF difficulty_level = 3 THEN "Medium"
    ELSE "Hard"

\* _extract_difficulty reading the level from sentiment keywords when the text
\* has no `difficulty N`
ExtractDifficultySentiment(text) ==
    IF DifficultyDigits(text) # <<>>
    THEN DifficultyLevel(DigitsValue(DifficultyDigits(text)))
    ELSE IF AnyIn(Lower(text), << <<"s","i","m","p","l","e">>, <<"e","a","s","y">>, <<"q","u","i","c","k">>, <<"b","a","s","i","c">> >>) THEN "Easy"
    ELSE IF AnyIn(Lower(text), << <<"d","i","f","f","i","c","u","l","t">>, <<"h","a","r","d">>, <<"c","o","m","p","l","e","x">>, <<"c","h","a","l","l","e","n","g","i","n","g">> >>) THEN "Hard"
    ELSE "Medium"

\* TaskParser._extract_difficulty
_extract_difficulty(text) ==
    IF DifficultyDigits(text) # <<>>
    THEN DifficultyLevel(DigitsValue(DifficultyDigits(text)))
    ELSE "Medium"

\* "no descriptor": the None of extract_task_details
NoDetails == [none |-> TRUE]

\* extract_task_details without its test of the name: a descriptor as soon as
\* the deadline resolved
TaskDetailsUnnamed(task_name, deadline, difficulty) ==
    IF deadline = NoDate THEN NoDetails
    ELSE [ Task_name |-> task_name, Deadline |-> Strftime(deadline),
           difficulty |-> difficulty, Status |-> <<"T","o"," ","D","o">> ]

\* the descriptor extract_task_details builds from a name and a deadline, or None
TaskDetails(task_name, deadline, difficulty) ==
    IF task_name # <<>> /\ deadline # NoDate
    THEN [ Task_name  |-> task_name,
           Deadline   |-> Strftime(deadline),
           difficulty |-> difficulty,
           Status     |-> <<"T","o"," ","D","o">> ]
    ELSE NoDetails

\* TaskParser.extract_task_details: the set of its possible results
extract_task_details(text, today) ==
    { TaskDetails(n, d, _extract_difficulty(text)) :
        n \in _extract_task_name(text), d \in _extract_deadline(text, today) }

\* TaskParser.is_task_query, on the lower-cased text
is_task_query(text) ==
    \/ AnyIn(text, task_indicators)
    \/ AnyIn(text, task_verbs)
    \/ AnyIn(text, task_nouns)


(***************************************************************************)
(* TaskParser.parse_query: the relation and the target date of a query.    *)
(***************************************************************************)
\* TaskParser.relative_patterns, in the order of the dict: the key, the pattern
\* as the str the source writes, and the phrase re.search finds with it
relative_patterns == <<
    [name |-> "this_week",  pattern |-> <<"t","h","i","s"," ","w","e","e","k">>,       phrase |-> <<"t","h","i","s"," ","w","e","e","k">>],
    [name |-> "next_week",  pattern |-> <<"n","e","x","t"," ","w","e","e","k">>,       phrase |-> <<"n","e","x","t"," ","w","e","e","k">>],
    [name |-> "this_month", pattern |-> <<"t","h","i","s"," ","m","o","n","t","h">>,      phrase |-> <<"t","h","i","s"," ","m","o","n","t","h">>],
    [name |-> "next_month", pattern |-> <<"n","e","x","t"," ","m","o","n","t","h">>,      phrase |-> <<"n","e","x","t"," ","m","o","n","t","h">>],
    [name |-> "today",      pattern |-> <<"t","o","d","a","y">>,           phrase |-> <<"t","o","d","a","y">>],
    [name |-> "tomorrow",   pattern |-> <<"t","o","m","o","r","r","o","w">>,        phrase |-> <<"t","o","m","o","r","r","o","w">>],
    [name |-> "weekend",    pattern |-> <<"(","t","h","i","s"," ","|",")","w","e","e","k","e","n","d">>, phrase |-> <<"w","e","e","k","e","n","d">>] >>

\* TaskParser.specific_days, in the order of the dict: `(this |next |)<day>`
\* matches wherever the day's name occurs
specific_days == <<
    [name |-> "sunday",    pattern |-> <<"(","t","h","i","s"," ","|","n","e","x","t"," ","|",")","s","u","n","d","a","y">>,    phrase |-> <<"s","u","n","d","a","y">>],
    [name |-> "monday",    pattern |-> <<"(","t","h","i","s"," ","|","n","e","x","t"," ","|",")","m","o","n","d","a","y">>,    phrase |-> <<"m","o","n","d","a","y">>],
    [name |-> "tuesday",   pattern |-> <<"(","t","h","i","s"," ","|","n","e","x","t"," ","|",")","t","u","e","s","d","a","y">>,   phrase |-> <<"t","u","e","s","d","a","y">>],
    [name |-> "wednesday", pattern |-> <<"(","t","h","i","s"," ","|","n","e","x","t"," ","|",")","w","e","d","n","e","s","d","a","y">>, phrase |-> <<"w","e","d","n","e","s","d","a","y">>],
    [name |-> "thursday",  pattern |-> <<"(","t","h","i","s"," ","|","n","e","x","t"," ","|",")","t","h","u","r","s","d","a","y">>,  phrase |-> <<"t","h","u","r","s","d","a","y">>],
    [name |-> "friday",    pattern |-> <<"(","t","h","i","s"," ","|","n","e","x","t"," ","|",")","f","r","i","d","a","y">>,    phrase |-> <<"f","r","i","d","a","y">>],
    [name |-> "saturday",  pattern |-> <<"(","t","h","i","s"," ","|","n","e","x","t"," ","|",")","s","a","t","u","r","d","a","y">>,  phrase |-> <<"s","a","t","u","r","d","a","y">>] >>

\* the first category of temporal_relations with a phrase in the text; "none"
RECURSIVE RelationFrom(_, _)
RelationFrom(text, k) ==
    IF k > Len(temporal_relations) THEN "none"
    ELSE IF AnyIn(Lower(text), temporal_relations[k].patterns)
         THEN temporal_relations[k].rel
         ELSE RelationFrom(text, k + 1)

\* "If no relation found but we have date-related words, default to 'before'":
\* the test is `pattern in text.lower()` with the pattern strs themselves
HasDatePatternStr(text) ==
    \/ \E k \in 1..Len(relative_patterns) : Contains(Lower(text), relative_patterns[k].pattern)
    \/ \E k \in 1..Len(specific_days) : Contains(Lower(text), specific_days[k].pattern)

\* the relation parse_query settles on
QueryRelation(text) ==
    IF RelationFrom(text, 1) # "none" THEN RelationFrom(text, 1)
    ELSE IF HasDatePatternStr(text) THEN "before"
    ELSE "none"

\* the first entry of a pattern table that re.search finds in the text; 0
FirstPattern(text, table) ==
    IF \E k \in 1..Len(table) : Contains(Lower(text), table[k].phrase)
    THEN CHOOSE k \in 1..Len(table) :
             /\ Contains(Lower(text), table[k].phrase)
             /\ \A j \in 1..(k - 1) : ~Contains(Lower(text), table[j].phrase)
    ELSE 0

\* the target dates parse_query may find once it has a relation: the relative
\* patterns, then the weekdays, then parsedatetime over the whole text
QueryTargets(text, today) ==
    IF FirstPattern(text, relative_patterns) # 0
    THEN { _handle_relative_time(relative_patterns[FirstPattern(text, relative_patterns)].name, today) }
    ELSE IF FirstPattern(text, specific_days) # 0
    THEN { _handle_specific_day(specific_days[FirstPattern(text, specific_days)].name, today) }
    ELSE { NoDate } \cup CalendarResults

\* TaskParser.parse_query: the set of its possible results
\* (target_date, relation, is_task_query, end_date)
parse_query(text, today) ==
    LET is_task  == is_task_query(Lower(text))
        rest     == RestAfterKeyword(text, << <<"b","y">>, <<"d","u","e">>, <<"u","n","t","i","l">> >>)
        early    == IF is_task /\ rest # <<>>
                    THEN parse_deadline(Strip(LazyGroupBeforeWith(rest)), today)
                    ELSE { NoDate }
        relation == QueryRelation(text)
        targets  == IF relation # "none" THEN QueryTargets(text, today) ELSE { NoDate }
    IN  { [target_date |-> d, relation |-> "before", is_task_query |-> TRUE, end_date |-> NoDate] :
            d \in early \ { NoDate } }
        \cup
        IF NoDate \in early
        THEN { [target_date |-> d, relation |-> relation, is_task_query |-> is_task,
                end_date |-> NoDate] : d \in targets }
        ELSE {}

(***************************************************************************)
(* The store: the Supabase table "Task Data", a sequence of rows            *)
(* [id, Task_name, Deadline, difficulty, Status, status] in table order.   *)
(* status is the lower-case column edit_task writes, empty where unset.    *)
(***************************************************************************)
\* .select("*") with .lte/.gte on Deadline: the rows within [lo, hi], in order
RECURSIVE SelectRange(_, _, _)
SelectRange(rows, lo, hi) ==
    IF rows = <<>> THEN <<>>
    ELSE (IF IsoLeq(lo, rows[1].Deadline) /\ IsoLeq(rows[1].Deadline, hi)
          THEN <<rows[1]>> ELSE <<>>) \o SelectRange(Tail(rows), lo, hi)

\* the smallest and the largest ISO string: an absent .gte or .lte filter
IsoMin == <<0, 0, 0, 0, 0, 0>>
IsoMax == <<9999, 12, 31, 23, 59, 59>>

\* .insert(task_details): the store assigns the id and appends the row
InsertRow(rows, id, task_details) ==
    Append(rows, [ id         |-> id,
                   Task_name  |-> task_details.Task_name,
                   Deadline   |-> task_details.Deadline,
                   difficulty |-> task_details.difficulty,
                   Status     |-> task_details.Status,
                   status     |-> <<>> ])

\* .delete().eq("id", id)
DeleteById(rows, id) == SelectSeq(rows, LAMBDA r : r.id # id)

\* .update(fields).eq("id", id): fields maps column names to new values
UpdateById(rows, id, fields) ==
    [ i \in 1..Len(rows) |->
        IF rows[i].id = id
        THEN [ c \in DOMAIN rows[i] |-> IF c \in DOMAIN fields THEN fields[c] ELSE rows[i][c] ]
        ELSE rows[i] ]


(***************************************************************************)
(* Completion and deletion: recognising the request and matching tasks.    *)
(***************************************************************************)
\* is_completion_indicator
is_completion_indicator(query) ==
    \E k \in 1..Len(completion_patterns) :
        IF completion_patterns[k].atEnd
        THEN EndsWith(Lower(query), completion_patterns[k].text)
        ELSE Contains(Lower(query), completion_patterns[k].text)

\* the re.sub loop of handle_task_completion: the description after the
\* substitutions of the first k patterns
RECURSIVE RemoveCompletionPhrases(_, _)
RemoveCompletionPhrases(task_description, k) ==
    IF k = 0 THEN task_description
    ELSE LET substituted == RemoveCompletionPhrases(task_description, k - 1)
         IN  IF substituted = <<>> THEN <<>>
             ELSE IF removal_patterns[k].atEnd
             THEN SubPhraseEnd(substituted, removal_patterns[k].text)
             ELSE SubPhraseSpace(substituted, removal_patterns[k].text)

\* task_terms of handle_task_completion: the words of the cleaned description
\* that are no common words
task_terms(query) ==
    SelectSeq(Split(Strip(RemoveCompletionPhrases(Lower(query), Len(removal_patterns)))),
              LAMBDA word : word \notin common_words)

\* `any(term in task['Task_name'].lower() for term in task_terms)`
AnyTermIn(task, terms) ==
    \E k \in 1..Len(terms) : Contains(Lower(task.Task_name), terms[k])

\* matching_tasks of handle_task_completion: the loop over tasks, appending
RECURSIVE CompletionMatches(_, _)
CompletionMatches(tasks, terms) ==
    IF tasks = <<>> THEN <<>>
    ELSE (IF AnyTermIn(tasks[1], terms) THEN <<tasks[1]>> ELSE <<>>)
         \o CompletionMatches(Tail(tasks), terms)

\* task_description of delete_task
DeleteDescription(query) == Strip(RemoveFirst(Lower(query), <<"d","e","l","e","t","e">>))

\* matching_tasks of delete_task: the loop over tasks, appending
RECURSIVE DeleteMatches(_, _)
DeleteMatches(tasks, task_description) ==
    IF tasks = <<>> THEN <<>>
    ELSE (IF Contains(Lower(tasks[1].Task_name), task_description)
          THEN <<tasks[1]>> ELSE <<>>)
         \o DeleteMatches(Tail(tasks), task_description)

\* int(choice): the number, or -1 where int() raises ValueError
ChoiceNumber(choice) == IF IsDigits(choice) THEN DigitsValue(choice) ELSE -1

\* the range test with the lower bound one too low: `0 <= choice_num <= len(...)`
InRangeFromZero(choice_num, n) == 0 <= choice_num /\ choice_num <= n

\* `1 <= choice_num <= len(matching_tasks)`
InRange(choice_num, n) == 1 <= choice_num /\ choice_num <= n

\* list[i] in Python: a negative index counts from the end
PyIndex(list, i) == IF i >= 0 THEN list[i + 1] ELSE list[Len(list) + i + 1]

\* the reply taken as an index from 0: `matching_tasks[choice_num]`, wrapping
\* at the end of the list
SelectedTaskZeroBased(tasks, choice_num) == tasks[(choice_num % Len(tasks)) + 1]

\* `matching_tasks[choice_num - 1]`
SelectedTask(tasks, choice_num) == PyIndex(tasks, choice_num - 1)

\* the digits of `mark task (\d+) as completed` searched in the lower-cased
\* query; empty where the expression does not match
MarkDigits(query) ==
    LET text == Lower(query)
        hits == { i \in 1..Len(text) :
                    /\ MatchAt(text, <<"m","a","r","k"," ","t","a","s","k"," ">>, i)
                    /\ \E n \in 1..Len(text) :
                          /\ IsDigits(SubSeq(text, i + 10, i + 9 + n))
                          /\ i + 9 + n <= Len(text)
                          /\ MatchAt(text, <<" ","a","s"," ","c","o","m","p","l","e","t","e","d">>, i + 10 + n) }
    IN  IF hits = {} THEN <<>>
        ELSE LET i == CHOOSE h \in hits : \A g \in hits : h <= g
                 n == CHOOSE m \in 1..Len(text) :
                          /\ IsDigits(SubSeq(text, i + 10, i + 9 + m))
                          /\ i + 9 + m <= Len(text)
                          /\ MatchAt(text, <<" ","a","s"," ","c","o","m","p","l","e","t","e","d">>, i + 10 + m)
             IN  SubSeq(text, i + 10, i + 9 + n)

\* sorted(tasks, key=deadline) of format_task_results: a stable insertion
RECURSIVE InsertSorted(_, _)
InsertSorted(sorted, task) ==
    IF sorted = <<>> THEN <<task>>
    ELSE IF IsoLeq(sorted[1].Deadline, task.Deadline)
         THEN <<sorted[1]>> \o InsertSorted(Tail(sorted), task)
         ELSE <<task>> \o sorted

RECURSIVE SortedByDeadline(_)
SortedByDeadline(tasks) ==
    IF tasks = <<>> THEN <<>>
    ELSE InsertSorted(SortedByDeadline(SubSeq(tasks, 1, Len(tasks) - 1)), tasks[Len(tasks)])


(***************************************************************************)
(* The inputs of the modelled runs.                                        *)
(***************************************************************************)
\* the lines typed at "Enter your query:" or sent to the bot
Queries == {
    <<"I"," ","f","i","n","i","s","h","e","d"," ","m","a","t","h">>,
    <<"t","h","e"," ","p","r","o","j","e","c","t"," ","i","s"," ","d","o","n","e">>,
    <<"m","a","t","h"," ","i"," ","f","i","n","i","s","h","e","d">>,
    <<"i"," ","n","e","e","d"," ","t","o"," ","f","i","n","i","s","h"," ","t","h","e"," ","r","e","p","o","r","t"," ","b","y"," ","f","r","i","d","a","y"," ","d","i","f","f","i","c","u","l","t","y"," ","4">>,
    <<"a","d","d"," ","m","i","l","k">>,
    <<"D","e","l","e","t","e"," ","t","a","s","k"," ","p","y","t","h","o","n">>,
    <<"d","e","l","e","t","e"," ","m","a","t","h">>,
    <<"s","h","o","w"," ","a","l","l"," ","m","y"," ","t","a","s","k","s">>,
    <<"w","h","a","t"," ","a","r","e"," ","m","y"," ","t","a","s","k","s"," ","d","u","e"," ","t","h","i","s"," ","w","e","e","k">>,
    <<"t","a","s","k","s"," ","b","e","f","o","r","e"," ","f","r","i","d","a","y">>,
    <<"d","u","e"," ","f","r","i","d","a","y">>,
    <<"h","e","l","l","o">>,
    <<"m","a","r","k"," ","t","a","s","k"," ","1"," ","a","s"," ","c","o","m","p","l","e","t","e","d"," ","n","o","w">>,
    <<"m","a","r","k"," ","t","a","s","k"," ","1"," ","a","s"," ","c","o","m","p","l","e","t","e","d">>,
    <<"d","e","l","e","t","e"," ","w","h","a","t"," ","i"," ","m","u","s","t"," ","d","o">> }

\* the lines typed at "Enter the number of the ... task (or press Enter to cancel):"
Choices == { <<>>, <<"0">>, <<"1">>, <<"2">>, <<"7">>, <<"x">> }

\* the lines typed at "Are you sure you want to delete ...? (yes/no):"
Confirms == { <<"y","e","s">>, <<"n","o">> }

\* the answers to the five prompts of edit_task
EditInputs == {
    [task_number |-> <<"1">>, new_task_name |-> <<"r","e","p","o","r","t">>, new_deadline |-> <<>>,
     new_difficulty |-> <<>>, new_status |-> <<>>],
    [task_number |-> <<"2">>, new_task_name |-> <<>>, new_deadline |-> <<"t","o","d","a","y">>,
     new_difficulty |-> <<"1">>, new_status |-> <<"t","o"," ","d","o">>],
    [task_number |-> <<"1">>, new_task_name |-> <<>>, new_deadline |-> <<"s","o","m","e","d","a","y">>,
     new_difficulty |-> <<"x">>, new_status |-> <<"d","o","n","e">>],
    [task_number |-> <<"7">>, new_task_name |-> <<"r","e","p","o","r","t">>, new_deadline |-> <<>>,
     new_difficulty |-> <<>>, new_status |-> <<>>],
    [task_number |-> <<"x">>, new_task_name |-> <<>>, new_deadline |-> <<>>,
     new_difficulty |-> <<>>, new_status |-> <<>>] }

\* a row as a creation stores it
Row(id, name, deadline) ==
    [ id |-> id, Task_name |-> name, Deadline |-> Strftime(deadline),
      difficulty |-> "Medium", Status |-> <<"T","o"," ","D","o">>, status |-> <<>> ]

\* The tables found when the program starts: the table is kept by the store
\* between runs, and holds rows earlier runs created.
InitialStores == {
    << Row(1, <<"M","a","t","h"," ","h","o","m","e","w","o","r","k">>, [ord |-> 311, hour |-> 23, minute |-> 59, second |-> 59]),
       Row(2, <<"M","a","t","h"," ","p","r","o","j","e","c","t">>, [ord |-> 313, hour |-> 14, minute |-> 30, second |-> 0]) >>,
    << Row(1, <<"M","a","t","h"," ","h","o","m","e","w","o","r","k">>, [ord |-> 311, hour |-> 23, minute |-> 59, second |-> 59]),
       Row(2, <<"P","y","t","h","o","n"," ","a","s","s","i","g","n","m","e","n","t">>, [ord |-> 313, hour |-> 14, minute |-> 30, second |-> 0]) >> }

(***************************************************************************)
(* The state.                                                              *)
(***************************************************************************)
VARIABLES
    frontend,           \* "cli": interactive_query runs; "bot": bot.py's handle_message does
    now,                \* what datetime.now() returns
    store,              \* the rows of "Task Data", in table order
    next_id,            \* the id the store assigns to the next inserted row
    pc,                 \* where the program stands: "idle" before a message is read, at
                        \* one of the prompts of a handler, or "returned" from the handler
    matching_tasks,     \* matching_tasks of the running completion or deletion
    task_to_delete,     \* task_to_delete of delete_task while it asks to confirm
    out                 \* the last input and what the program did with it

vars == << frontend, now, store, next_id, pc,
           matching_tasks, task_to_delete, out >>

\* the names bot.py imports from Task_management (lines 4-14)
bot_imports == { "handle_common_queries", "add_task_natural", "view_tasks", "edit_task",
                 "delete_task", "mark_task_completed", "is_completion_indicator",
                 "handle_task_completion", "interactive_query" }

\* What the program did with an input: the message being handled, the line read
\* last, the handler the message went to, the lines printed for this input, the
\* tasks listed with them, the bot's reply, and whether an exception left the
\* message handler.
Output(query, input, handler, printed, listed, reply, escaped) ==
    [ query |-> query, input |-> input, handler |-> handler, printed |-> printed,
      listed |-> listed, reply |-> reply, escaped |-> escaped ]

\* before a message is read nothing has been done with it
NoOutput == Output(<<>>, <<>>, "none", <<>>, <<>>, "", FALSE)

\* the reply handle_message sends once the handler has returned; the command
\* line sends none
Reply(text) == IF frontend = "bot" THEN text ELSE ""

Init ==
    /\ frontend \in { "cli", "bot" }
    /\ now \in Nows
    /\ store \in InitialStores
    /\ next_id = Len(store) + 1
    /\ pc = "idle"
    /\ matching_tasks = <<>>
    /\ task_to_delete = <<>>
    /\ out = NoOutput

\* the text the handlers receive: input().strip() on the command line,
\* update.message.text in the bot
Received(line) == IF frontend = "cli" THEN Strip(line) ELSE line

\* The if/elif chain of interactive_query (lines 674-694).
CliBranch(query) ==
    IF is_completion_indicator(query) THEN "handle_task_completion"
    ELSE IF AnyIn(Lower(query), task_indicators) \/ StartsWith(Lower(query), <<"a","d","d">>)
         THEN "add_task_natural"
    ELSE IF StartsWith(Lower(query), <<"d","e","l","e","t","e">>) THEN "delete_task"
    ELSE IF StartsWith(Lower(query), <<"m","a","r","k"," ","t","a","s","k">>) THEN "mark_task_completed"
    ELSE "handle_common_queries"

\* The if/elif chain of handle_message (bot.py lines 57-75).  The second test
\* calls TaskParser(), a name bot.py does not import: evaluating it raises
\* NameError.
BotBranch(text) ==
    IF is_completion_indicator(text) THEN "handle_task_completion"
    ELSE IF "TaskParser" \notin bot_imports THEN "NameError"
    ELSE IF AnyIn(Lower(text), task_indicators) \/ StartsWith(Lower(text), <<"a","d","d">>)
         THEN "add_task_natural"
    ELSE IF StartsWith(Lower(text), <<"d","e","l","e","t","e">>) THEN "delete_task"
    ELSE "handle_common_queries"

(***************************************************************************)
(* What the text operators give for the modelled lines, computed once.     *)
(***************************************************************************)
\* the texts the handlers receive
Texts == Queries \cup { Strip(line) : line \in Queries }

\* the branch each front end takes for a line
BranchTable ==
    [ f \in { "cli", "bot" }, line \in Queries |->
        IF f = "cli" THEN CliBranch(Strip(line)) ELSE BotBranch(line) ]

\* what the handlers compute from the text alone
Parsed ==
    [ query \in Texts |->
        [ task_terms       |-> task_terms(query),
          task_description |-> DeleteDescription(query),
          mark_digits      |-> MarkDigits(query),
          is_viewing_query |-> AnyIn(Lower(query), viewing_indicators),
          mentions_week    |-> Contains(Lower(query), <<"w","e","e","k">>) ] ]

\* what the parsers return for a text at a clock reading
ParsedAt ==
    [ query \in Texts, today \in Nows |->
        [ task_details |-> extract_task_details(query, today),
          parse_query  |-> parse_query(query, today) ] ]

\* the branch the running front end takes for a line
Branch(line) == BranchTable[frontend, line]


(***************************************************************************)
(* The handlers.  A store call may raise (the store is unreachable); `up`  *)
(* says whether the calls of the step reach the store.                     *)
(***************************************************************************)
\* the step ends the handler: it returns, nothing pending
Returns == pc' = "returned" /\ matching_tasks' = <<>> /\ task_to_delete' = <<>>

\* the parts of the state no handler writes
Environment == UNCHANGED << frontend, now >>

\* handle_task_completion resolving a single match at once: with one matching
\* task it deletes it without listing it or reading a number
handle_task_completion_resolving(line) ==
    LET query == Received(line)
        terms == Parsed[query].task_terms
        matches == CompletionMatches(store, terms)
        ends(printed) == /\ Returns
                         /\ UNCHANGED next_id
                         /\ out' = Output(query, <<>>, "handle_task_completion", printed, <<>>,
                                          Reply("Task completion processed."), FALSE)
    IN  /\ pc = "idle"
        /\ Branch(line) = "handle_task_completion"
        /\ Environment
        /\ IF terms = <<>>
           THEN ends(<<"Please specify which task you completed.">>) /\ UNCHANGED store
           ELSE \E up \in BOOLEAN :
                IF ~up THEN ends(<<"Error handling task completion">>) /\ UNCHANGED store
                ELSE IF store = <<>> THEN ends(<<"No tasks available.">>) /\ UNCHANGED store
                ELSE IF matches = <<>>
                     THEN ends(<<"No tasks found matching">>) /\ UNCHANGED store
                ELSE IF Len(matches) = 1
                     THEN /\ store' = DeleteById(store, matches[1].id)
                          /\ ends(<<"Great job! Task has been marked as completed and removed">>)
                ELSE /\ pc' = "completion_choice"
                     /\ matching_tasks' = matches
                     /\ task_to_delete' = <<>>
                     /\ UNCHANGED << store, next_id >>
                     /\ out' = Output(query, <<>>, "handle_task_completion",
                                      <<"Found these matching tasks:">>,
                                      matches, "", FALSE)

\* handle_task_completion up to its first input(): lines 589-633
handle_task_completion(line) ==
    LET query == Received(line)
        terms == Parsed[query].task_terms
        matches == CompletionMatches(store, terms)
        ends(printed) == /\ Returns
                         /\ UNCHANGED << store, next_id >>
                         /\ out' = Output(query, <<>>, "handle_task_completion", printed, <<>>,
                                          Reply("Task completion processed."), FALSE)
    IN  /\ pc = "idle"
        /\ Branch(line) = "handle_task_completion"
        /\ Environment
        /\ IF terms = <<>> THEN ends(<<"Please specify which task you completed.">>)
           ELSE \E up \in BOOLEAN :
                IF ~up THEN ends(<<"Error handling task completion">>)
                ELSE IF store = <<>> THEN ends(<<"No tasks available.">>)
                ELSE IF matches = <<>>
                     THEN ends(<<"No tasks found matching">>)
                ELSE /\ pc' = "completion_choice"
                     /\ matching_tasks' = matches
                     /\ task_to_delete' = <<>>
                     /\ UNCHANGED << store, next_id >>
                     /\ out' = Output(query, <<>>, "handle_task_completion",
                                      <<"Found these matching tasks:">>,
                                      matches, "", FALSE)

\* one round of the `while True` of handle_task_completion: lines 636-655
CompletionChoice(typed) ==
    LET choice == Strip(typed)
        choice_num == ChoiceNumber(choice)
        ends(printed) == /\ Returns
                         /\ out' = [out EXCEPT !.input = typed, !.printed = printed,
                                               !.listed = <<>>,
                                               !.reply = Reply("Task completion processed.")]
        again(printed) == /\ UNCHANGED << store, next_id, pc, matching_tasks, task_to_delete >>
                          /\ out' = [out EXCEPT !.input = typed, !.printed = printed]
    IN  /\ pc = "completion_choice"
        /\ Environment
        /\ IF choice = <<>>
           THEN ends(<<"Operation cancelled.">>) /\ UNCHANGED << store, next_id >>
           ELSE IF choice_num = -1
           THEN again(<<"Please enter a valid number.">>)
           ELSE IF InRange(choice_num, Len(matching_tasks))
           THEN \E up \in BOOLEAN :
                    IF up
                    THEN /\ store' = DeleteById(store, SelectedTask(matching_tasks, choice_num).id)
                         /\ UNCHANGED next_id
                         /\ ends(<<"Great job! Task has been marked as completed and removed">>)
                    ELSE /\ UNCHANGED << store, next_id >>
                         /\ ends(<<"Error handling task completion">>)
           ELSE again(<<"Invalid number. Please try again.">>)

\* delete_task up to its first input(): lines 734-761
delete_task(line) ==
    LET query == Received(line)
        task_description == Parsed[query].task_description
        matches == DeleteMatches(store, task_description)
        ends(printed) == /\ Returns
                         /\ UNCHANGED << store, next_id >>
                         /\ out' = Output(query, <<>>, "delete_task", printed, <<>>,
                                          Reply("Task deleted successfully."), FALSE)
    IN  /\ pc = "idle"
        /\ Branch(line) = "delete_task"
        /\ Environment
        /\ IF task_description = <<>>
           THEN ends(<<"Please specify what task you want to delete.">>)
           ELSE \E up \in BOOLEAN :
                IF ~up THEN ends(<<"Error deleting task">>)
                ELSE IF store = <<>> THEN ends(<<"No tasks available.">>)
                ELSE IF matches = <<>>
                     THEN ends(<<"No tasks found matching">>)
                ELSE /\ pc' = "delete_choice"
                     /\ matching_tasks' = matches
                     /\ task_to_delete' = <<>>
                     /\ UNCHANGED << store, next_id >>
                     /\ out' = Output(query, <<>>, "delete_task",
                                      <<"Found these matching tasks:">>,
                                      matches, "", FALSE)

\* one round of the `while True` of delete_task up to the confirmation
\* prompt: lines 764-777 and 785-788
DeleteChoice(typed) ==
    LET choice == Strip(typed)
        choice_num == ChoiceNumber(choice)
        again(printed) == /\ UNCHANGED << pc, matching_tasks, task_to_delete >>
                          /\ out' = [out EXCEPT !.input = typed, !.printed = printed]
    IN  /\ pc = "delete_choice"
        /\ Environment
        /\ UNCHANGED << store, next_id >>
        /\ IF choice = <<>>
           THEN /\ Returns
                /\ out' = [out EXCEPT !.input = typed, !.printed = <<"Deletion cancelled.">>,
                                      !.listed = <<>>,
                                      !.reply = Reply("Task deleted successfully.")]
           ELSE IF choice_num = -1
           THEN again(<<"Please enter a valid number.">>)
           ELSE IF InRange(choice_num, Len(matching_tasks))
           THEN /\ pc' = "delete_confirm"
                /\ task_to_delete' = << SelectedTask(matching_tasks, choice_num) >>
                /\ UNCHANGED matching_tasks
                /\ out' = [out EXCEPT !.input = typed,
                                      !.printed = <<"Are you sure you want to delete?">>,
                                      !.listed = << SelectedTask(matching_tasks, choice_num) >>]
           ELSE again(<<"Invalid number. Please try again.">>)

\* the answer to "Are you sure ...? (yes/no)": lines 777-784
DeleteConfirm(typed) ==
    LET confirm == Lower(Strip(typed))
        ends(printed) == /\ Returns
                         /\ out' = [out EXCEPT !.input = typed, !.printed = printed,
                                               !.listed = <<>>,
                                               !.reply = Reply("Task deleted successfully.")]
    IN  /\ pc = "delete_confirm"
        /\ Environment
        /\ IF confirm = <<"y","e","s">>
           THEN \E up \in BOOLEAN :
                    IF up
                    THEN /\ store' = DeleteById(store, task_to_delete[1].id)
                         /\ UNCHANGED next_id
                         /\ ends(<<"Task has been deleted.">>)
                    ELSE /\ UNCHANGED << store, next_id >>
                         /\ ends(<<"Error deleting task">>)
           ELSE /\ UNCHANGED << store, next_id >>
                /\ ends(<<"Deletion cancelled.">>)

\* The insert of a creation path: refused by the model once the table or the
\* ids are used up.
CanInsert == Len(store) < MaxStore /\ next_id <= MaxId

\* add_task_natural (lines 437-451).  What the insert raises is caught by the
\* `except Exception` of interactive_query (lines 696-698); handle_message has
\* no handler for it.
add_task_natural(line) ==
    LET query == Received(line)
        done(printed, replied) ==
            /\ UNCHANGED << store, next_id >>
            /\ out' = Output(query, <<>>, "add_task_natural", printed, <<>>,
                             Reply(replied), FALSE)
    IN  /\ pc = "idle"
        /\ Branch(line) = "add_task_natural"
        /\ Environment
        /\ Returns
        /\ \E task_details \in ParsedAt[query, now].task_details :
              IF task_details = NoDetails
              THEN done(<<"Failed to extract task details.">>,
                        "Failed to add task. Please check your input.")
              ELSE \E up \in BOOLEAN :
                      IF up
                      THEN /\ CanInsert
                           /\ store' = InsertRow(store, next_id, task_details)
                           /\ next_id' = next_id + 1
                           /\ out' = Output(query, <<>>, "add_task_natural",
                                            <<"Task added successfully">>,
                                            << store'[Len(store')] >>,
                                            Reply("Task added successfully!"), FALSE)
                      ELSE /\ UNCHANGED << store, next_id >>
                           /\ out' = IF frontend = "cli"
                                     THEN Output(query, <<>>, "add_task_natural",
                                                 <<"Error:", "Please try again with a different query.">>,
                                                 <<>>, "", FALSE)
                                     ELSE Output(query, <<>>, "add_task_natural",
                                                 <<>>, <<>>, "", TRUE)

\* mark_task_completed: lines 700-730
mark_task_completed(line) ==
    LET query == Received(line)
        digits == Parsed[query].mark_digits
        task_number == DigitsValue(digits)
        done(printed) == /\ UNCHANGED << store, next_id >>
                         /\ out' = Output(query, <<>>, "mark_task_completed", printed, <<>>,
                                          "", FALSE)
    IN  /\ pc = "idle"
        /\ Branch(line) = "mark_task_completed"
        /\ Environment
        /\ Returns
        /\ IF digits = <<>>
           THEN done(<<"Please use the format: 'Mark task <number> as completed'">>)
           ELSE \E up \in BOOLEAN :
                IF ~up THEN done(<<"Error marking task as completed">>)
                ELSE IF store = <<>> THEN done(<<"No tasks available.">>)
                ELSE IF ~InRange(task_number, Len(store))
                     THEN done(<<"Invalid task number.">>)
                ELSE IF SelectedTask(store, task_number).Status = <<"C","o","m","p","l","e","t","e","d">>
                     THEN done(<<"Task is already completed.">>)
                ELSE /\ store' = UpdateById(store, SelectedTask(store, task_number).id,
                                            [Status |-> <<"C","o","m","p","l","e","t","e","d">>])
                     /\ UNCHANGED next_id
                     /\ out' = Output(query, <<>>, "mark_task_completed",
                                      <<"Task marked as Completed.">>,
                                      << store'[task_number] >>, "", FALSE)


\* the end of the current week as handle_common_queries computes it: lines 380-382
EndOfWeek(current_date) == EndOfDay(AddDelta(current_date, 6 - Weekday(current_date), 0, 0, 0))

\* the rows the date-based select of handle_common_queries returns: lines 412-429
SelectByRelation(rows, relation, target_date, end_date) ==
    CASE relation = "inclusive" ->
            SelectRange(rows, Strftime(StartOfDay(target_date)), Strftime(EndOfDay(target_date)))
      [] relation = "before" -> SelectRange(rows, IsoMin, Strftime(target_date))
      [] relation = "after" -> SelectRange(rows, Strftime(target_date), IsoMax)
      [] relation = "flexible" /\ end_date # NoDate ->
            SelectRange(rows, Strftime(target_date), Strftime(end_date))
      [] OTHER -> rows

\* the date-based select falling back to every row when no date was found
DateBasedResultsOrAll(rows, r) ==
    IF r.target_date # NoDate
    THEN SelectByRelation(rows, r.relation, r.target_date, r.end_date)
    ELSE rows

\* "For other date-based queries" of handle_common_queries\* "For other date-based queries" of handle_common_queries (lines 411-431): the
\* rows selected for a target date; without one it returns None, no row
DateBasedResults(rows, r) ==
    IF r.target_date # NoDate
    THEN SelectByRelation(rows, r.relation, r.target_date, r.end_date)
    ELSE <<>>

\* handle_common_queries (lines 368-435) and what interactive_query does with its
\* result (lines 689-694)
handle_common_queries(line) ==
    LET query == Received(line)
        shown(results, printed) ==
            /\ UNCHANGED << store, next_id >>
            /\ out' = IF results # <<>>
                      THEN Output(query, <<>>, "handle_common_queries",
                                  printed \o <<"Results:">>, SortedByDeadline(results), "", FALSE)
                      ELSE Output(query, <<>>, "handle_common_queries",
                                  printed \o <<"No results to display.">>, <<>>,
                                  Reply("No results to display."), FALSE)
        byDate(r) == shown(DateBasedResults(store, r), <<>>)
    IN  /\ pc = "idle"
        /\ Branch(line) = "handle_common_queries"
        /\ Environment
        /\ Returns
        /\ \E up \in BOOLEAN :
            IF Parsed[query].is_viewing_query
            THEN IF ~up THEN shown(<<>>, <<"Error processing query">>)
                 ELSE IF Parsed[query].mentions_week
                 THEN shown(SelectRange(store, Strftime(now), Strftime(EndOfWeek(now))), <<>>)
                 ELSE shown(store, <<>>)
            ELSE \E r \in ParsedAt[query, now].parse_query :
                 IF r.is_task_query
                 THEN \E task_details \in ParsedAt[query, now].task_details :
                         IF task_details # NoDetails
                         THEN IF up
                              THEN /\ CanInsert
                                   /\ store' = InsertRow(store, next_id, task_details)
                                   /\ next_id' = next_id + 1
                                   /\ out' = Output(query, <<>>, "handle_common_queries",
                                                    <<"Task added successfully",
                                                      "No results to display.">>,
                                                    <<>>, Reply("No results to display."), FALSE)
                              ELSE shown(<<>>, <<"Error processing query">>)
                         ELSE IF r.target_date # NoDate /\ ~up
                              THEN shown(<<>>, <<"Error processing query">>)
                              ELSE byDate(r)
                 ELSE IF r.target_date # NoDate /\ ~up
                      THEN shown(<<>>, <<"Error processing query">>)
                      ELSE byDate(r)

\* the message of the bot that reaches `TaskParser()` (bot.py line 60): NameError
\* leaves handle_message; the dispatcher of the bot library logs it and goes on
\* with the next update
BotNameError(line) ==
    /\ pc = "idle"
    /\ Branch(line) = "NameError"
    /\ Environment
    /\ Returns
    /\ UNCHANGED << store, next_id >>
    /\ out' = Output(Received(line), <<>>, "none", <<>>, <<>>, "", TRUE)

\* updated_fields of edit_task (lines 487-512): the columns to write and their
\* values; parsed_deadline is what parse_deadline returned for new_deadline
UpdatedFields(e, parsed_deadline) ==
    LET new_task_name  == Strip(e.new_task_name)
        new_deadline   == Strip(e.new_deadline)
        new_difficulty == Strip(e.new_difficulty)
        new_status     == Strip(e.new_status)
        columns ==
            (IF new_task_name # <<>> THEN {"Task_name"} ELSE {})
            \cup (IF new_deadline # <<>> /\ parsed_deadline # NoDate THEN {"Deadline"} ELSE {})
            \cup (IF new_difficulty # <<>> /\ IsDigits(new_difficulty)
                  THEN {"difficulty"} ELSE {})
            \cup (IF new_status # <<>> /\ Lower(new_status) \in { <<"t","o"," ","d","o">>, <<"c","o","m","p","l","e","t","e","d">> }
                  THEN {"status"} ELSE {})
    IN  [ c \in columns |->
            CASE c = "Task_name" -> Capitalize(new_task_name)
              [] c = "Deadline" -> Strftime(parsed_deadline)
              [] c = "difficulty" -> DifficultyLevel(DigitsValue(new_difficulty))
              [] c = "status" -> Capitalize(new_status) ]

\* edit_task: lines 461-522.  It writes the lower-case column `status`; a
\* table without that column refuses the update, and the store raises.
edit_task(e) ==
    LET task_number == ChoiceNumber(Strip(e.task_number))
        done(printed) == /\ UNCHANGED << store, next_id >>
                         /\ out' = Output(<<>>, e.task_number, "edit_task", printed, <<>>,
                                          "", FALSE)
    IN  /\ pc = "idle"
        /\ Environment
        /\ Returns
        /\ \E up \in BOOLEAN, has_status_column \in BOOLEAN :
            IF ~up THEN done(<<"Error editing task", "Error editing task">>)
            ELSE IF store = <<>> THEN done(<<"No tasks available to edit.">>)
            ELSE IF task_number = -1 THEN done(<<"Error editing task", "Error editing task">>)
            ELSE IF ~InRange(task_number, Len(store))
                 THEN done(<<"Invalid task number.">>)
            ELSE \E parsed_deadline \in parse_deadline(Strip(e.new_deadline), now) :
                 LET updated_fields == UpdatedFields(e, parsed_deadline)
                 IN  IF DOMAIN updated_fields = {}
                     THEN done(<<"No changes made to the task.">>)
                     ELSE IF "status" \in DOMAIN updated_fields /\ ~has_status_column
                     THEN done(<<"Error editing task", "Error editing task">>)
                     ELSE /\ store' = UpdateById(store, SelectedTask(store, task_number).id, updated_fields)
                          /\ UNCHANGED next_id
                          /\ out' = Output(<<>>, e.task_number, "edit_task",
                                           <<"Task updated successfully.">>,
                                           << store'[task_number] >>, "", FALSE)

\* the next message taken up while a handler still waits at one of its prompts:
\* the waiting flow keeps its candidates
NextMessageAnytime ==
    /\ pc \in { "returned", "completion_choice", "delete_choice", "delete_confirm" }
    /\ pc' = "idle"
    /\ out' = NoOutput
    /\ UNCHANGED << frontend, now, store, next_id, matching_tasks, task_to_delete >>

\* the loop of interactive_query comes round to its input(), the bot's
\* dispatcher to its next update: what the last message printed is history
NextMessage ==
    /\ pc = "returned"
    /\ pc' = "idle"
    /\ out' = NoOutput
    /\ UNCHANGED << frontend, now, store, next_id, matching_tasks, task_to_delete >>

\* one step of the conversation: interactive_query, or the bot's handle_message
Next ==
    \/ \E line \in Queries : handle_task_completion(line)
    \/ \E typed \in Choices : CompletionChoice(typed)
    \/ \E line \in Queries : delete_task(line)
    \/ \E typed \in Choices : DeleteChoice(typed)
    \/ \E typed \in Confirms : DeleteConfirm(typed)
    \/ \E line \in Queries : add_task_natural(line)
    \/ \E line \in Queries : mark_task_completed(line)
    \/ \E line \in Queries : handle_common_queries(line)
    \/ \E line \in Queries : BotNameError(line)
    \/ NextMessage

Spec == Init /\ [][Next]_vars

\* the conversation, and edit_task called between two messages: no branch of
\* interactive_query or handle_message calls it, the module offers it
EditCall == \E e \in EditInputs : edit_task(e)

NextApi == Next \/ EditCall

SpecApi == Init /\ [][NextApi]_vars


(***************************************************************************)
(* The parser's methods called on their own, at any day of the week and    *)
(* any time of day.  A call is one step from "idle" to "returned": out     *)
(* records the method, its argument and what it returned.                  *)
(***************************************************************************)
\* the second in which the clock is read: midnight, mid-morning, the last
\* second of the day
TimesOfDay == { [hour |-> 0,  minute |-> 0,  second |-> 0],
                [hour |-> 10, minute |-> 30, second |-> 0],
                [hour |-> 23, minute |-> 59, second |-> 59] }

\* the clock readings datetime.now() yields in the calls: every day of the week
\* Monday 2026-11-02 .. Sunday 2026-11-08, at each of these times
Clocks == { [ord |-> d, hour |-> t.hour, minute |-> t.minute, second |-> t.second] :
                d \in 306..312, t \in TimesOfDay }

\* the tables found by the calls: deadlines earlier in the week, inside it and
\* after it, whatever the day the clock shows
WeekStores == InitialStores \cup {
    << Row(1, <<"M","a","t","h"," ","h","o","m","e","w","o","r","k">>, [ord |-> 309, hour |-> 9, minute |-> 0, second |-> 0]),
       Row(2, <<"M","a","t","h"," ","p","r","o","j","e","c","t">>, [ord |-> 312, hour |-> 23, minute |-> 59, second |-> 59]) >> }

InitParse ==
    /\ frontend = "cli"
    /\ now \in Clocks
    /\ store \in WeekStores
    /\ next_id = Len(store) + 1
    /\ pc = "idle"
    /\ matching_tasks = <<>>
    /\ task_to_delete = <<>>
    /\ out = NoOutput

\* what a call leaves in out: the method, its argument and what it returned
Returned(method, argument, result) ==
    Output(argument, <<>>, method, <<>>, <<result>>, "", FALSE)

\* the keys of specific_days, the arguments parse_query passes to _handle_specific_day
DayNames == { specific_days[k].name : k \in 1..Len(specific_days) }

\* self._handle_specific_day(day), as parse_query calls it (line 302); the store
\* is not touched
CallSpecificDay ==
    \E day \in DayNames :
        /\ pc = "idle"
        /\ Environment
        /\ Returns
        /\ UNCHANGED << store, next_id >>
        /\ out' = Returned("_handle_specific_day", day, _handle_specific_day(day, now))

\* the keys of relative_patterns, the arguments parse_query passes to
\* _handle_relative_time
PatternNames == { relative_patterns[k].name : k \in 1..Len(relative_patterns) }

\* self._handle_relative_time(pattern_name), as parse_query calls it (line 295)
CallRelativeTime ==
    \E pattern_name \in PatternNames :
        /\ pc = "idle"
        /\ Environment
        /\ Returns
        /\ UNCHANGED << store, next_id >>
        /\ out' = Returned("_handle_relative_time", pattern_name,
                           _handle_relative_time(pattern_name, now))

\* the lines of the command line that handle_common_queries takes as viewing
\* queries (line 373)
ViewingLines == { line \in Queries : Parsed[Strip(line)].is_viewing_query }

\* the phrases parse_deadline is called with
DeadlineStrs == { <<"f","r","i","d","a","y">>, <<"t","o","d","a","y">>, <<"T","o","n","i","g","h","t"," ","a","t"," ","8">>, <<"s","o","m","e","d","a","y">> }

\* what the date parsers may make of a phrase: no date, a date with no time of
\* day, and dates with a time of day, in the first minute after midnight too
ParsedDates == { NoDate } \cup CalendarResults \cup
    { [ord |-> 311, hour |-> 0, minute |-> 0,  second |-> 30],
      [ord |-> 311, hour |-> 0, minute |-> 45, second |-> 0],
      [ord |-> 311, hour |-> 9, minute |-> 0,  second |-> 0] }

\* self.parse_deadline(deadline_str), as _extract_deadline, parse_query and
\* edit_task call it
CallParseDeadline ==
    \E deadline_str \in DeadlineStrs, parsed \in ParsedDates :
        /\ pc = "idle"
        /\ Environment
        /\ Returns
        /\ UNCHANGED << store, next_id >>
        /\ out' = Returned("parse_deadline",
                           << deadline_str, parsed >>,
                           ParseDeadlineFrom(deadline_str, now, parsed))

\* the creation texts _extract_difficulty is called with
DifficultyTexts == {
    <<"r","e","p","o","r","t"," ","d","i","f","f","i","c","u","l","t","y"," ","0">>, <<"r","e","p","o","r","t"," ","d","i","f","f","i","c","u","l","t","y"," ","1">>, <<"e","s","s","a","y"," ","D","i","f","f","i","c","u","l","t","y"," ","2">>,
    <<"d","i","f","f","i","c","u","l","t","y"," ","3">>, <<"f","i","n","i","s","h"," ","t","h","e"," ","r","e","p","o","r","t"," ","b","y"," ","f","r","i","d","a","y"," ","d","i","f","f","i","c","u","l","t","y"," ","4">>,
    <<"r","u","n"," ","d","i","f","f","i","c","u","l","t","y"," "," ","1","0"," ","t","o","d","a","y">>, <<"a"," ","c","h","a","l","l","e","n","g","i","n","g"," ","p","r","o","j","e","c","t">>, <<"a","n"," ","e","a","s","y"," ","q","u","i","z">>,
    <<"m","o","d","e","r","a","t","e"," ","d","i","f","f","i","c","u","l","t","y">>, <<"w","r","i","t","e"," ","n","o","t","e","s">> }

\* self._extract_difficulty(text), as extract_task_details calls it (line 121)
CallExtractDifficulty ==
    \E text \in DifficultyTexts :
        /\ pc = "idle"
        /\ Environment
        /\ Returns
        /\ UNCHANGED << store, next_id >>
        /\ out' = Returned("_extract_difficulty", text, _extract_difficulty(text))

\* the queries parse_query is called with
QueryTexts == {
    <<"t","a","s","k","s"," ","t","h","i","s"," ","w","e","e","k">>, <<"t","a","s","k","s"," ","t","o","d","a","y">>, <<"t","a","s","k","s"," ","t","o","m","o","r","r","o","w">>, <<"t","a","s","k","s"," ","w","e","e","k","e","n","d">>,
    <<"t","a","s","k","s"," ","f","r","i","d","a","y">>, <<"t","a","s","k","s"," ","f","r","i","d","a","y"," ","t","h","i","s"," ","w","e","e","k">>, <<"t","a","s","k","s"," ","b","e","f","o","r","e"," ","f","r","i","d","a","y">>,
    <<"t","a","s","k","s"," ","n","e","x","t"," ","m","o","n","t","h">>, <<"h","e","l","l","o">> }

\* parser.parse_query(query), as handle_common_queries calls it (line 398)
CallParseQuery ==
    \E text \in QueryTexts :
        \E result \in parse_query(text, now) :
            /\ pc = "idle"
            /\ Environment
            /\ Returns
            /\ UNCHANGED << store, next_id >>
            /\ out' = Returned("parse_query", text, result)

\* the creation texts _extract_task_name is called with
NameTexts == {
    <<"w","i","l","l"," ","d","o"," ","t","h","e"," ","l","a","u","n","d","r","y">>, <<"s","h","o","u","l","d","a"," ","c","a","l","l","e","d"," ","m","o","m">>, <<"g","o","t","t","a"," ","r","u","n">>,
    <<"I"," ","n","e","e","d"," ","t","o"," ","f","i","n","i","s","h"," ","t","h","e"," ","r","e","p","o","r","t"," ","b","y"," ","f","r","i","d","a","y">> }

\* self._extract_task_name(doc, text), as extract_task_details calls it (line 119)
CallExtractTaskName ==
    \E text \in NameTexts :
        \E task_name \in _extract_task_name(text) :
            /\ pc = "idle"
            /\ Environment
            /\ Returns
            /\ UNCHANGED << store, next_id >>
            /\ out' = Returned("_extract_task_name", text, task_name)


\* the calls of the parser, and the viewing queries of the command line
NextParse ==
    \/ CallSpecificDay
    \/ CallRelativeTime
    \/ CallParseDeadline
    \/ CallExtractDifficulty
    \/ CallParseQuery
    \/ CallExtractTaskName
    \/ \E line \in ViewingLines : handle_common_queries(line)
    \/ NextMessage

SpecParse == InitParse /\ [][NextParse]_vars


(***************************************************************************)
(* The properties.                                                         *)
(***************************************************************************)
\* an ISO timestamp as strftime("%Y-%m-%dT%H:%M:%S") writes it
IsIsoDeadline(d) ==
    /\ Len(d) = 6
    /\ d[2] \in 1..12 /\ d[3] \in 1..31
    /\ d[4] \in 0..23 /\ d[5] \in 0..59 /\ d[6] \in 0..59

\* every stored task has a name and a deadline
C1_Stored ==
    \A i \in 1..Len(store) :
        store[i].Task_name # <<>> /\ IsIsoDeadline(store[i].Deadline)

\* a descriptor extract_task_details returns carries a name and a deadline
C1_Descriptor ==
    \A query \in Texts :
        \A task_details \in ParsedAt[query, now].task_details :
            task_details # NoDetails =>
                task_details.Task_name # <<>> /\ IsIsoDeadline(task_details.Deadline)

\* a creation path for which extract_task_details returned None leaves the
\* store as it was
C1_NoInsert ==
    (/\ pc = "idle"
     /\ out'.handler \in { "add_task_natural", "handle_common_queries" }
     /\ \/ ParsedAt[out'.query, now].task_details = { NoDetails }
        \/ out'.printed = <<"Failed to extract task details.">>)
    => store' = store /\ next_id' = next_id

\* C1: after any sequence of create, edit, mark-completed, completion and
\* delete operations every stored task has a non-empty Task_name and a
\* Deadline; extract_task_details returns a descriptor only when both the
\* name and the deadline resolved, and when it returns None the creation
\* paths insert nothing and leave the store unchanged.
C1_NamedAndDated == [](C1_Stored /\ C1_Descriptor) /\ [][C1_NoInsert]_vars

\* a created task is stored, and an edit has just rewritten a task
C1_Witness ==
    /\ \E i \in 1..Len(store) : store[i].id > 2
    /\ out.handler = "edit_task"
    /\ out.printed = <<"Task updated successfully.">>

\* the status values a stored task carries: its column `Status`, which the
\* creation paths and mark_task_completed write, and its column `status`, which
\* edit_task writes and lists, once it is set
StatusFields(task) ==
    { task.Status } \cup (IF task.status = <<>> THEN {} ELSE { task.status })

\* C2: after any sequence of operations (task creation, edit_task,
\* mark_task_completed, completion, deletion) every stored task's status is
\* exactly 'To Do' or 'Completed', and a newly created task has Status
\* 'To Do'.
C2_StatusValues ==
    /\ \A i \in 1..Len(store) : StatusFields(store[i]) \subseteq { <<"T","o"," ","D","o">>, <<"C","o","m","p","l","e","t","e","d">> }
    /\ (out.printed # <<>> /\ out.printed[1] = "Task added successfully")
           => store[Len(store)].Status = <<"T","o"," ","D","o">>

\* the number a reply stands for, 0 when it is not a number
ReplyNumber(typed) ==
    IF IsDigits(Strip(typed)) THEN DigitsValue(Strip(typed)) ELSE 0

\* the rows but the one with the id
AllBut(rows, id) == SelectSeq(rows, LAMBDA task : task.id # id)

\* the step of the completion flow that reads a reply k within 1..N: the k-th
\* candidate is deleted by its id and no other row, or the store raised and
\* nothing was deleted
C3_Step ==
    LET k == ReplyNumber(out'.input)
    IN  (pc = "completion_choice" /\ k \in 1..Len(matching_tasks))
        => \/ store' = AllBut(store, matching_tasks[k].id)
              /\ Len(store') = Len(store) - 1
              /\ out'.printed = <<"Great job! Task has been marked as completed and removed">>
           \/ store' = store /\ out'.printed = <<"Error handling task completion">>

\* C3: in the completion flow with N candidates numbered 1..N in discovery
\* order, a reply that is an integer k with 1 <= k <= N deletes exactly the
\* k-th listed candidate (by its id) and leaves every other stored task intact.
C3_DeletesKth == [][C3_Step]_vars

\* candidates 'Math homework', 'Math project': the reply 2 deleted 'Math
\* project' and kept 'Math homework'
C3_Witness ==
    /\ out.query = <<"I"," ","f","i","n","i","s","h","e","d"," ","m","a","t","h">>
    /\ out.input = <<"2">>
    /\ out.printed = <<"Great job! Task has been marked as completed and removed">>
    /\ Len(store) = 1
    /\ store[1].Task_name = <<"M","a","t","h"," ","h","o","m","e","w","o","r","k">>

\* a selection is awaited
AwaitingSelection == pc \in { "completion_choice", "delete_choice" }

\* the retry prompts
RetryPrompts == { <<"Please enter a valid number.">>, <<"Invalid number. Please try again.">> }

\* the reply is rejected: nothing stored changes, the candidates stay, the flow
\* keeps awaiting a selection
Rejected ==
    /\ store' = store
    /\ next_id' = next_id
    /\ matching_tasks' = matching_tasks
    /\ pc' = pc
    /\ out'.printed \in RetryPrompts

\* C4 as stated: while a selection among candidates is awaited, any input that
\* is not an integer in [1,N] is rejected with a retry prompt, no store
\* operation is issued, the candidate list is unchanged and the flow keeps
\* awaiting a selection.
C4_AnyInvalidRejected ==
    [][ (AwaitingSelection /\ ReplyNumber(out'.input) \notin 1..Len(matching_tasks))
        => Rejected ]_vars

\* C4: while a selection is awaited, a non-empty input that is not an integer
\* in [1,N] is rejected with a retry prompt, the store and the candidates
\* unchanged; the empty input ends the flow ("cancelled") without a store
\* operation.
C4_InvalidRejected ==
    [][ (AwaitingSelection /\ ReplyNumber(out'.input) \notin 1..Len(matching_tasks))
        => IF Strip(out'.input) # <<>>
           THEN Rejected
           ELSE /\ store' = store
                /\ pc' = "returned"
                /\ out'.printed \in { <<"Operation cancelled.">>, <<"Deletion cancelled.">> } ]_vars

\* an out-of-range reply has been rejected, the two candidates still listed
C4_Witness ==
    /\ pc = "completion_choice"
    /\ out.input = <<"7">>
    /\ out.printed = <<"Invalid number. Please try again.">>
    /\ Len(matching_tasks) = 2

\* the candidates of the flow a message starts
FlowMatches(handler, rows, query) ==
    IF handler = "handle_task_completion"
    THEN CompletionMatches(rows, Parsed[query].task_terms)
    ELSE DeleteMatches(rows, Parsed[query].task_description)

\* the step handles a completion or deletion message that exactly one stored
\* task matches, the store answering
SingleMatch ==
    /\ pc = "idle"
    /\ out'.handler \in { "handle_task_completion", "delete_task" }
    /\ out'.printed \notin { <<"Error handling task completion">>, <<"Error deleting task">> }
    /\ Len(FlowMatches(out'.handler, store, out'.query)) = 1

\* C5 as stated: when exactly one stored task matches the completion or
\* deletion description, the delete is issued in the same step, with no
\* selection prompt and no confirmation awaited.
C5_ResolvedAtOnce ==
    [][ SingleMatch
        => /\ store' = AllBut(store, FlowMatches(out'.handler, store, out'.query)[1].id)
           /\ pc' = "returned" ]_vars

\* C5: when exactly one stored task matches, it is listed as candidate 1 and a
\* selection is awaited, the store unchanged in that step; a task is deleted
\* only by the step that reads the number (completion) or the "yes"
\* (deletion).
C5_SingleMatchPrompts ==
    [][ /\ SingleMatch
           => /\ store' = store
              /\ pc' \in { "completion_choice", "delete_choice" }
              /\ matching_tasks' = FlowMatches(out'.handler, store, out'.query)
              /\ out'.listed = matching_tasks'
        /\ Len(store') < Len(store)
           => /\ pc \in { "completion_choice", "delete_confirm" }
              /\ Strip(out'.input) # <<>> ]_vars

\* one task matched the completion message and the flow awaits its number
C5_Witness ==
    /\ pc = "completion_choice"
    /\ Len(matching_tasks) = 1
    /\ out.input = <<>>
    /\ Len(store) = 2

\* s with every occurrence of the phrase removed
RECURSIVE WithoutPhrase(_, _)
WithoutPhrase(s, phrase) ==
    IF Contains(s, phrase) THEN WithoutPhrase(RemoveFirst(s, phrase), phrase) ELSE s

\* the description with the first k completion phrases removed
RECURSIVE WithoutCompletionPhrases(_, _)
WithoutCompletionPhrases(s, k) ==
    IF k = 0 THEN s
    ELSE LET cleaned == WithoutCompletionPhrases(s, k - 1)
         IN  IF cleaned = <<>> THEN <<>>
             ELSE IF completion_patterns[k].atEnd
             THEN SubPhraseEnd(cleaned, completion_patterns[k].text)
             ELSE WithoutPhrase(cleaned, completion_patterns[k].text)

\* the terms of the cleaned description: completion phrases and the stop words
\* the/a/an/this/that/these/those removed
CleanedTerms(query) ==
    SelectSeq(Split(Strip(WithoutCompletionPhrases(Lower(query), Len(completion_patterns)))),
              LAMBDA word : word \notin { <<"t","h","e">>, <<"a">>, <<"a","n">>, <<"t","h","i","s">>, <<"t","h","a","t">>,
                                          <<"t","h","e","s","e">>, <<"t","h","o","s","e">> })

\* the stored tasks whose lower-cased name contains a term, in store order
TermCandidates(rows, terms) ==
    SelectSeq(rows, LAMBDA task :
        \E k \in 1..Len(terms) : Contains(Lower(task.Task_name), terms[k]))

\* the cleaned terms of the modelled messages
CleanedTermsOf == [ query \in Texts |-> CleanedTerms(query) ]

\* C6: in handle_task_completion the candidate list is exactly the stored
\* tasks whose lower-cased name contains at least one whitespace-delimited
\* term of the cleaned description (completion phrases and stop words
\* removed), in store order.
C6_CandidatesOfCleaned ==
    /\ pc = "completion_choice"
          => matching_tasks = TermCandidates(store, CleanedTermsOf[out.query])
    /\ (out.handler = "handle_task_completion" /\ out.printed = <<"No tasks found matching">>)
          => TermCandidates(store, CleanedTermsOf[out.query]) = <<>>

\* the whitespace-delimited terms of the description of a deletion request
DescriptionTerms == [ query \in Texts |-> Split(Parsed[query].task_description) ]

\* C7: 'delete <description>' computes its candidates with the matcher of
\* completion: a stored task is a candidate if and only if any
\* whitespace-delimited term of the description occurs as a case-insensitive
\* substring of its name.
C7_DeleteMatchesByTerm ==
    /\ pc = "delete_choice"
          => matching_tasks = TermCandidates(store, DescriptionTerms[out.query])
    /\ (out.handler = "delete_task" /\ out.printed = <<"No tasks found matching">>)
          => TermCandidates(store, DescriptionTerms[out.query]) = <<>>

\* the handler of strict first-match precedence: completion indicator, then
\* creation indicator or 'add' prefix, then 'delete' prefix, then the fallback
FirstMatch ==
    [ query \in Texts |->
        IF is_completion_indicator(query) THEN "handle_task_completion"
        ELSE IF AnyIn(Lower(query), task_indicators) \/ StartsWith(Lower(query), <<"a","d","d">>)
             THEN "add_task_natural"
        ELSE IF StartsWith(Lower(query), <<"d","e","l","e","t","e">>) THEN "delete_task"
        ELSE "handle_common_queries" ]

\* C8: each inbound message is dispatched to exactly one handler by strict
\* first-match precedence, completion indicator, then creation indicator or
\* 'add' prefix, then 'delete' prefix, then the query fallback, in the CLI loop
\* and in the bot message handler.
C8_FirstMatchDispatch ==
    (pc # "idle" /\ out.handler # "edit_task") => out.handler = FirstMatch[out.query]

\* the message reached the fallback, carries no viewing keyword, and no
\* relation or date is recognised in it
Unrecognized ==
    /\ out.handler = "handle_common_queries"
    /\ ~Parsed[out.query].is_viewing_query
    /\ \A r \in ParsedAt[out.query, now].parse_query :
          r.target_date = NoDate /\ ~r.is_task_query

\* the listed tasks are the stored tasks
ListsEveryTask ==
    /\ Len(out.listed) = Len(store)
    /\ \A i \in 1..Len(store) : \E j \in 1..Len(out.listed) : out.listed[j] = store[i]

\* C9 as stated: a message that matches no completion, creation or deletion
\* indicator and carries no recognizable query phrase or date is treated as
\* 'show all tasks': the fallback issues an unfiltered read and the reply
\* contains every stored task.
C9_UnknownShowsAll == Unrecognized => ListsEveryTask

\* C9: in the fallback a message with a viewing keyword (show, what, list,
\* view, display, get) and no 'week' is answered with every stored task; a
\* message with no viewing keyword in which no date is recognised is answered
\* "No results to display.", with no task listed and no error.
C9_UnknownShowsNothing ==
    /\ Unrecognized
          => /\ out.printed = <<"No results to display.">>
             /\ out.listed = <<>>
             /\ ~out.escaped
    /\ (/\ out.handler = "handle_common_queries"
        /\ Parsed[out.query].is_viewing_query
        /\ ~Parsed[out.query].mentions_week
        /\ out.printed[1] # "Error processing query")
          => ListsEveryTask

\* "hello" reached the fallback with tasks stored, and none was shown
C9_Witness ==
    /\ out.query = <<"h","e","l","l","o">>
    /\ out.handler = "handle_common_queries"
    /\ out.printed = <<"No results to display.">>
    /\ Len(store) = 2

\* C10: every exception raised while handling a message is caught at the
\* boundary of the message handler and turned into a user-visible error; none
\* propagates out of the message handler.
C10_NoneEscapes == ~out.escaped


(***************************************************************************)
(* The properties of the parser's methods and of the week view.            *)
(***************************************************************************)
\* C11: for every current weekday and every target weekday,
\* _handle_specific_day returns the date (target_weekday - today_weekday) mod 7
\* days after today, at 23:59:59: its weekday is the target weekday and its date
\* is never before today.
C11_SpecificDay ==
    out.handler = "_handle_specific_day" =>
        LET result == out.listed[1]
            target == DayNumber(out.query)
        IN  /\ result = [ ord |-> now.ord + ((target - Weekday(now)) % 7),
                          hour |-> 23, minute |-> 59, second |-> 59 ]
            /\ Weekday(result) = target
            /\ result.ord >= now.ord

\* a weekday earlier in the week than today was asked for, and the date of the
\* following week came back
C11_Witness ==
    /\ out.handler = "_handle_specific_day"
    /\ DayNumber(out.query) < Weekday(now)
    /\ out.listed[1].ord > now.ord
    /\ now.hour = 10

\* the Sunday of the Monday-anchored week that contains dt, at 23:59:59
SundayOfWeek(dt) ==
    [ord |-> dt.ord - Weekday(dt) + 6, hour |-> 23, minute |-> 59, second |-> 59]

\* C12: for every current weekday and time of day,
\* _handle_relative_time('this_week') returns Sunday 23:59:59 of the
\* Monday-anchored week that contains the current moment, and
\* _handle_relative_time('next_week') Sunday 23:59:59 of the week after it.
C12_EndOfWeek ==
    /\ (out.handler = "_handle_relative_time" /\ out.query = "this_week")
            => out.listed[1] = SundayOfWeek(now)
    /\ (out.handler = "_handle_relative_time" /\ out.query = "next_week")
            => out.listed[1] = AddDelta(SundayOfWeek(now), 7, 0, 0, 0)

\* a <= b for two datetimes
DtLeq(a, b) == a.ord < b.ord \/ (a.ord = b.ord /\ SecondsOfDay(a) <= SecondsOfDay(b))

\* the rows of the store whose deadline lies in the closed range [lo, hi]
DueWithin(lo, hi) ==
    { store[i] : i \in { j \in 1..Len(store) :
                            /\ DtLeq(lo, FromIso(store[j].Deadline))
                            /\ DtLeq(FromIso(store[j].Deadline), hi) } }

\* a viewing query that mentions 'week' was answered from the store
WeekViewed ==
    /\ out.handler = "handle_common_queries"
    /\ Parsed[out.query].is_viewing_query
    /\ Parsed[out.query].mentions_week
    /\ \A i \in 1..Len(out.printed) : out.printed[i] # "Error processing query"

\* C13: a viewing query that mentions 'week' returns exactly the stored tasks
\* whose deadline lies in the closed range from today 00:00:00 to Sunday
\* 23:59:59 of the current week, for every store content and every current time
\* of day.
C13_WeekFromMidnight ==
    WeekViewed =>
        { out.listed[i] : i \in 1..Len(out.listed) }
            = DueWithin(StartOfDay(now), SundayOfWeek(now))

\* the phrase names the current day
NamesToday(deadline_str) ==
    Contains(Lower(deadline_str), <<"t","o","d","a","y">>) \/ Contains(Lower(deadline_str), <<"t","o","n","i","g","h","t">>)

\* C14: parse_deadline normalizes a successfully parsed date-time to 23:59:59 of
\* the same date exactly when the parsed time of day is 00:00:00; a parsed result
\* with hour, minute or second non-zero is returned with its time unchanged, and
\* a phrase containing 'today' or 'tonight' yields the current date at 23:59:59.
C14_MidnightOnly ==
    out.handler = "parse_deadline" =>
        LET parsed == out.query[2]
            result == out.listed[1]
        IN  IF NamesToday(out.query[1])
            THEN result = [ord |-> now.ord, hour |-> 23, minute |-> 59, second |-> 59]
            ELSE parsed # NoDate =>
                    IF parsed.hour = 0 /\ parsed.minute = 0 /\ parsed.second = 0
                    THEN result = [ord |-> parsed.ord, hour |-> 23, minute |-> 59, second |-> 59]
                    ELSE result = parsed

\* the sentiment keywords, by the level they stand for
EasyWords == << <<"s","i","m","p","l","e">>, <<"e","a","s","y">>, <<"q","u","i","c","k">>, <<"b","a","s","i","c">> >>
HardWords == << <<"d","i","f","f","i","c","u","l","t">>, <<"h","a","r","d">>, <<"c","o","m","p","l","e","x">>, <<"c","h","a","l","l","e","n","g","i","n","g">> >>
MediumWords == << <<"m","o","d","e","r","a","t","e">>, <<"m","e","d","i","u","m">> >>

\* the text has no 'difficulty N' phrase
NoDifficultyNumber(text) == DifficultyDigits(text) = <<>>

\* the text has no difficulty cue at all
NoDifficultyCue(text) ==
    /\ ~Contains(Lower(text), <<"d","i","f","f","i","c","u","l","t","y">>)
    /\ ~AnyIn(Lower(text), EasyWords \o HardWords \o MediumWords)

\* C15: difficulty extraction is total over the three levels: for text
\* containing 'difficulty N' it returns Easy when N <= 2, Medium when N = 3 and
\* Hard when N > 3; for text with no difficulty cue at all it returns Medium; it
\* never returns any value other than Easy, Medium or Hard.
C15_ThreeLevels ==
    out.handler = "_extract_difficulty" =>
        LET N      == DigitsValue(DifficultyDigits(out.query))
            result == out.listed[1]
        IN  /\ result \in { "Easy", "Medium", "Hard" }
            /\ ~NoDifficultyNumber(out.query) =>
                    /\ N <= 2 => result = "Easy"
                    /\ N = 3 => result = "Medium"
                    /\ N > 3 => result = "Hard"
            /\ NoDifficultyCue(out.query) => result = "Medium"

\* 'difficulty 2', the last number of Easy, was read and gave Easy
C15_Witness ==
    /\ out.handler = "_extract_difficulty"
    /\ DifficultyDigits(out.query) = <<"2">>
    /\ out.listed[1] = "Easy"

\* C16 as stated: when the creation text has no 'difficulty N' phrase, difficulty
\* is taken from sentiment keywords: simple/easy/quick/basic give Easy,
\* difficult/hard/complex/challenging give Hard, moderate/medium give Medium.
C16_SentimentKeywords ==
    (out.handler = "_extract_difficulty" /\ NoDifficultyNumber(out.query)) =>
        /\ AnyIn(Lower(out.query), EasyWords) => out.listed[1] = "Easy"
        /\ AnyIn(Lower(out.query), HardWords) => out.listed[1] = "Hard"
        /\ AnyIn(Lower(out.query), MediumWords) => out.listed[1] = "Medium"

\* C16: when the creation text has no 'difficulty N' phrase, the difficulty is
\* Medium whatever sentiment keywords the text holds: 'a challenging project' is
\* stored with difficulty Medium.
C16_KeywordsIgnored ==
    (out.handler = "_extract_difficulty" /\ NoDifficultyNumber(out.query)) =>
        out.listed[1] = "Medium"

\* 'a challenging project' was read and gave Medium
C16_Witness ==
    /\ out.handler = "_extract_difficulty"
    /\ out.query = <<"a"," ","c","h","a","l","l","e","n","g","i","n","g"," ","p","r","o","j","e","c","t">>
    /\ out.listed[1] = "Medium"

\* the text contains a relative expression or a weekday name
MentionsDate(text) ==
    FirstPattern(text, relative_patterns) # 0 \/ FirstPattern(text, specific_days) # 0

\* the date the relative-pattern table gives for the text, else the weekday table
DateOfTables(text, today) ==
    IF FirstPattern(text, relative_patterns) # 0
    THEN _handle_relative_time(relative_patterns[FirstPattern(text, relative_patterns)].name, today)
    ELSE _handle_specific_day(specific_days[FirstPattern(text, specific_days)].name, today)

\* C17: in parse_query, when the text contains no relation phrase of any
\* category but does contain a relative expression (this/next week, this/next
\* month, today, tomorrow, weekend) or a weekday name, the relation defaults to
\* 'before' and a target date is resolved from the relative-pattern table first,
\* then the weekday table.
C17_DefaultBefore ==
    (/\ out.handler = "parse_query"
     /\ RelationFrom(out.query, 1) = "none"
     /\ MentionsDate(out.query))
        => /\ out.listed[1].relation = "before"
           /\ out.listed[1].target_date = DateOfTables(out.query, now)

\* P is a proper substring of Q
ProperSubstring(P, Q) == P # Q /\ Contains(Q, P)

\* what is left of Q after the first occurrence of P in it
Remainder(P, Q) == Strip(AfterFirst(Q, P))

\* C18: for every pair of indicators P and Q of task_indicators where P is a
\* proper substring of Q, Q comes before P in the order _extract_task_name
\* iterates, so the name is split at the longest indicator present and is not
\* prefixed by the remainder of a longer indicator.  Stated for the indicators Q
\* present in the text of the call.
C18_LongestFirst ==
    out.handler = "_extract_task_name" =>
        \A p, q \in 1..Len(task_indicators) :
            (/\ ProperSubstring(task_indicators[p], task_indicators[q])
             /\ Contains(Lower(out.query), task_indicators[q]))
                => /\ q < p
                   /\ Remainder(task_indicators[p], task_indicators[q]) # <<>>
                        => ~StartsWith(Lower(out.listed[1]),
                                       Remainder(task_indicators[p], task_indicators[q]))

\* a completion or deletion flow has read its candidate list and not ended
FlowPending == matching_tasks # <<>>

\* the prompts at which a flow waits for the user
Prompts == { "completion_choice", "delete_choice", "delete_confirm" }

\* the ids of the stored rows
StoredIds(rows) == { rows[i].id : i \in 1..Len(rows) }

\* the lines that report a candidate deleted
ReportsDeleted == { <<"Great job! Task has been marked as completed and removed">>,
                    <<"Task has been deleted.">> }

\* while a flow is pending the program stands at one of the flow's prompts,
\* every candidate is still stored, and a step changes the store only by the
\* flow deleting one of its candidates and ending; a step that reports a
\* deletion removes a row that was stored
C19_Step ==
    /\ FlowPending =>
        /\ pc \in Prompts
        /\ \A k \in 1..Len(matching_tasks) : matching_tasks[k] \in { store[i] : i \in 1..Len(store) }
        /\ \/ store' = store
           \/ /\ \E k \in 1..Len(matching_tasks) : store' = AllBut(store, matching_tasks[k].id)
              /\ ~FlowPending'
    /\ (out'.printed \in ReportsDeleted /\ out' # out) =>
        /\ FlowPending
        /\ \E id \in StoredIds(store) : StoredIds(store') = StoredIds(store) \ { id }
        /\ Len(store') = Len(store) - 1

====
